---- MODULE Spec2Model ----
(***************************************************************************)
(* A model of the registry adapters of cliver-mcp (src/mcp/epmc.ts,        *)
(* src/mcp/nih.ts, src/mcp/maps.ts, src/mcp/screening.ts) and of the tool  *)
(* handlers that expose them (src/unnamed/part_000).                       *)
(*                                                                         *)
(* JavaScript values are tagged records: the field t holds the typeof tag  *)
(* ("undefined", "null", "string", "number", "boolean", "array",           *)
(* "object"); a string carries its characters as a sequence of one-letter  *)
(* strings in the field s, so that split, trim and toUpperCase are         *)
(* computed letter by letter.                                              *)
(***************************************************************************)
EXTENDS Integers, Sequences, FiniteSets, TLC

(***************************************************************************)
(* Bounds of the model.                                                    *)
(***************************************************************************)
MaxResults == 2
MaxAuthors == 2
MaxMesh == 2
MaxQual == 2
MaxUrls == 3
MaxEmails == 3
MaxPiLen == 4
MaxPis == 1
MaxAmount == 3
MaxTermsLen == 4
MaxGroups == 2
MaxSummaries == 2

(***************************************************************************)
(* JavaScript values and the language's own operations.                    *)
(***************************************************************************)
Undefined == [t |-> "undefined"]
Null == [t |-> "null"]
Str(chars) == [t |-> "string", s |-> chars]
Num(n) == [t |-> "number", n |-> n]
Bool(b) == [t |-> "boolean", b |-> b]
Arr(seq) == [t |-> "array", a |-> seq]

\* ToBoolean of the values the model uses: undefined, null, "", 0 and false
\* are falsy; every array and object is truthy.
Truthy(v) ==
  CASE v.t = "undefined" -> FALSE
    [] v.t = "null" -> FALSE
    [] v.t = "string" -> v.s # <<>>
    [] v.t = "number" -> v.n # 0
    [] v.t = "boolean" -> v.b
    [] OTHER -> TRUE

IsOptString(v) == v.t \in {"undefined", "string"}

Lower == <<"a", "b", "c", "d", "i", "o", "r">>
Upper == <<"A", "B", "C", "D", "I", "O", "R">>

\* String.prototype.toUpperCase on one letter: letters outside a-z are kept.
UpperChar(c) ==
  IF \E i \in 1..Len(Lower) : Lower[i] = c
  THEN Upper[CHOOSE i \in 1..Len(Lower) : Lower[i] = c]
  ELSE c

ToUpperCase(chars) == [i \in 1..Len(chars) |-> UpperChar(chars[i])]

IsSpace(c) == c = " "

RECURSIVE TrimStart(_)
TrimStart(chars) ==
  IF chars # <<>> /\ IsSpace(Head(chars)) THEN TrimStart(Tail(chars)) ELSE chars

RECURSIVE TrimEnd(_)
TrimEnd(chars) ==
  IF chars # <<>> /\ IsSpace(chars[Len(chars)])
  THEN TrimEnd(SubSeq(chars, 1, Len(chars) - 1))
  ELSE chars

\* String.prototype.trim
Trim(chars) == TrimEnd(TrimStart(chars))

\* String.prototype.split(sep) for a one-letter separator: every occurrence
\* of the separator ends a piece.
RECURSIVE SplitAll(_, _, _)
SplitAll(chars, sep, cur) ==
  IF chars = <<>> THEN <<cur>>
  ELSE IF Head(chars) = sep THEN <<cur>> \o SplitAll(Tail(chars), sep, <<>>)
  ELSE SplitAll(Tail(chars), sep, Append(cur, Head(chars)))

\* String.prototype.split(sep, limit): the pieces of split(sep), cut to the
\* first limit pieces.
Split(chars, sep, limit) ==
  LET all == SplitAll(chars, sep, <<>>)
  IN IF Len(all) > limit THEN SubSeq(all, 1, limit) ELSE all

\* What a function call ends with: a returned value or a thrown error.
Return(value) == [ok |-> TRUE, value |-> value]
Throw(error) == [ok |-> FALSE, error |-> error]

\* The state of a call that has not ended.
NotCalled == Throw([kind |-> "not called"])

Called(out) == out # NotCalled

Failed(out) == Called(out) /\ ~out.ok

Succeeded(out) == Called(out) /\ out.ok

\* All sequences over S of length at most n.
SeqsUpTo(S, n) == UNION {[1..k -> S] : k \in 0..n}

(***************************************************************************)
(* The network, as the adapters see it: what one request ends with.        *)
(***************************************************************************)
\* A body that is no JSON text: response.json() throws a SyntaxError.
Unparseable == [t |-> "unparseable"]

NoEvent == [type |-> "none", status |-> 0, body |-> Undefined]
\* fetch resolved with a response of this status and body
HttpResponse(status, body) == [type |-> "response", status |-> status, body |-> body]
\* fetch rejected: no connection, DNS failure, connection reset
NetworkError == [type |-> "neterror", status |-> 0, body |-> Undefined]
\* fetch rejected because its signal was aborted
Aborted == [type |-> "abort", status |-> 0, body |-> Undefined]

\* fetch rejected because the AbortSignal.timeout of its request fired
TimedOut == [type |-> "timeout", status |-> 0, body |-> Undefined]

\* Response.ok
ResponseOk(ev) == ev.status >= 200 /\ ev.status <= 299

\* An exception no adapter has classified, thrown by the platform.
Exception(kind, message) == [kind |-> kind, message |-> message]

\* What awaiting fetch and then response.json() throws, when it throws.
PlatformThrow(ev) ==
  CASE ev.type = "neterror" -> Exception("TypeError", "fetch failed")
    [] ev.type = "abort" -> Exception("AbortError", "This operation was aborted")
    [] ev.type = "timeout" -> Exception("TimeoutError", "The operation timed out")
    [] OTHER -> Exception("SyntaxError", "Unexpected token in JSON")

(***************************************************************************)
(* Europe PMC: src/mcp/epmc.ts                                             *)
(***************************************************************************)
EpmcAPIError(message, cause) ==
  [kind |-> "EpmcAPIError", message |-> message, cause |-> cause]

EpmcValidationError(message, rawData) ==
  [kind |-> "EpmcValidationError", message |-> message, rawData |-> rawData]

\* EpmcAuthorIdSchema
EpmcAuthorIdSchema(v) ==
  v.t = "object" /\ IsOptString(v.type) /\ IsOptString(v.value)

\* EpmcAuthorSchema (authorAffiliationDetailsList.authorAffiliation is the
\* field affiliations)
EpmcAuthorSchema(v) ==
  /\ v.t = "object"
  /\ IsOptString(v.fullName)
  /\ IsOptString(v.lastName)
  /\ v.authorId.t = "undefined" \/ EpmcAuthorIdSchema(v.authorId)
  /\ \/ v.affiliations.t = "undefined"
     \/ /\ v.affiliations.t = "array"
        /\ \A i \in 1..Len(v.affiliations.a) : IsOptString(v.affiliations.a[i])

\* EpmcMeshQualifierSchema
EpmcMeshQualifierSchema(v) == v.t = "object" /\ IsOptString(v.qualifierName)

\* EpmcMeshHeadingSchema (meshQualifierList.meshQualifier is the field
\* qualifiers)
EpmcMeshHeadingSchema(v) ==
  /\ v.t = "object"
  /\ IsOptString(v.majorTopic_YN)
  /\ IsOptString(v.descriptorName)
  /\ \/ v.qualifiers.t = "undefined"
     \/ /\ v.qualifiers.t = "array"
        /\ \A i \in 1..Len(v.qualifiers.a) : EpmcMeshQualifierSchema(v.qualifiers.a[i])

\* EpmcFullTextUrlSchema
EpmcFullTextUrlSchema(v) == v.t = "object" /\ IsOptString(v.url)

\* EpmcGrantSchema
EpmcGrantSchema(v) == v.t = "object" /\ IsOptString(v.grantId) /\ IsOptString(v.agency)

\* EpmcResultSchema, for the fields the normalizer reads (authorList.author
\* is the field authors, meshHeadingList.meshHeading the field mesh,
\* fullTextUrlList.fullTextUrl the field urls, grantsList.grant the field
\* grants); pmid, pmcid, firstPublicationDate, journalInfo, citedByCount and
\* keywordList are copied to the record the way doi is.
EpmcResultSchema(v) ==
  /\ v.t = "object"
  /\ IsOptString(v.title)
  /\ IsOptString(v.abstractText)
  /\ IsOptString(v.doi)
  /\ IsOptString(v.isOpenAccess)
  /\ \/ v.authors.t = "undefined"
     \/ /\ v.authors.t = "array"
        /\ \A i \in 1..Len(v.authors.a) : EpmcAuthorSchema(v.authors.a[i])
  /\ \/ v.mesh.t = "undefined"
     \/ /\ v.mesh.t = "array"
        /\ \A i \in 1..Len(v.mesh.a) : EpmcMeshHeadingSchema(v.mesh.a[i])
  /\ \/ v.urls.t = "undefined"
     \/ /\ v.urls.t = "array"
        /\ \A i \in 1..Len(v.urls.a) : EpmcFullTextUrlSchema(v.urls.a[i])
  /\ \/ v.grants.t = "undefined"
     \/ /\ v.grants.t = "array"
        /\ \A i \in 1..Len(v.grants.a) : EpmcGrantSchema(v.grants.a[i])

\* EpmcResponseSchema (resultList.result is the field results)
EpmcResponseSchema(v) ==
  /\ v.t = "object"
  /\ \/ v.results.t = "undefined"
     \/ /\ v.results.t = "array"
        /\ \A i \in 1..Len(v.results.a) : EpmcResultSchema(v.results.a[i])

ORCID_TYPE == <<"O", "R", "C", "I", "D">>

\* AuthorOrcid with the type compared without toUpperCase
AuthorOrcid_CaseSensitive(author) ==
  IF /\ author.authorId.t = "object"
     /\ author.authorId.type.t = "string"
     /\ author.authorId.type.s = ORCID_TYPE
     /\ Truthy(author.authorId.value)
  THEN author.authorId.value
  ELSE Undefined

\* epmc.ts 276-279: the author's ORCID
AuthorOrcid(author) ==
  IF /\ author.authorId.t = "object"
     /\ author.authorId.type.t = "string"
     /\ ToUpperCase(author.authorId.type.s) = ORCID_TYPE
     /\ Truthy(author.authorId.value)
  THEN author.authorId.value
  ELSE Undefined

\* epmc.ts 267-274: the non-empty affiliation strings of an author, in order
AuthorAffiliations(author) ==
  IF Truthy(author.affiliations)
  THEN SelectSeq(author.affiliations.a, Truthy)
  ELSE <<>>

\* epmc.ts 262-290: authors without a full name are skipped
ConvertAuthors(result) ==
  IF Truthy(result.authors)
  THEN LET named == SelectSeq(result.authors.a, LAMBDA au : Truthy(au.fullName))
       IN [i \in 1..Len(named) |->
             [fullName |-> named[i].fullName,
              lastName |-> named[i].lastName,
              orcid |-> AuthorOrcid(named[i]),
              affiliations |-> AuthorAffiliations(named[i])]]
  ELSE <<>>

\* epmc.ts 293-304: grants without a grant id are skipped
ConvertGrants(result) ==
  IF Truthy(result.grants)
  THEN LET kept == SelectSeq(result.grants.a, LAMBDA g : Truthy(g.grantId))
       IN [i \in 1..Len(kept) |-> [grantId |-> kept[i].grantId, agency |-> kept[i].agency]]
  ELSE <<>>

\* A list in the opposite order.
Reverse(list) == [i \in 1..Len(list) |-> list[Len(list) + 1 - i]]

\* epmc.ts 307-315: the loop over fullTextUrl that breaks at the first url
RECURSIVE FirstUrl(_)
FirstUrl(urls) ==
  IF urls = <<>> THEN Undefined
  ELSE IF Truthy(Head(urls).url) THEN Head(urls).url
  ELSE FirstUrl(Tail(urls))

\* The full-text URL when the loop runs to the end of the list and keeps the
\* last url.
FullTextUrl_Last(result) ==
  IF Truthy(result.urls) THEN FirstUrl(Reverse(result.urls.a)) ELSE Undefined

\* epmc.ts 307-315
FullTextUrl(result) ==
  IF Truthy(result.urls) THEN FirstUrl(result.urls.a) ELSE Undefined

\* epmc.ts 331-337: the loop that appends "/" and the qualifier name
RECURSIVE AppendQualifiers(_, _)
AppendQualifiers(subjectStr, qualifiers) ==
  IF qualifiers = <<>> THEN subjectStr
  ELSE IF Truthy(Head(qualifiers).qualifierName)
       THEN AppendQualifiers(subjectStr \o <<"/">> \o Head(qualifiers).qualifierName.s,
                             Tail(qualifiers))
       ELSE AppendQualifiers(subjectStr, Tail(qualifiers))

\* SubjectStr with the asterisk put on every heading that has a marker
SubjectStr_AnyMarker(mesh) ==
  LET starred == IF Truthy(mesh.majorTopic_YN)
                 THEN <<"*">> \o mesh.descriptorName.s
                 ELSE mesh.descriptorName.s
  IN IF Truthy(mesh.qualifiers)
     THEN AppendQualifiers(starred, mesh.qualifiers.a)
     ELSE starred

\* epmc.ts 323-337: the subject string of one MeSH heading with a descriptor
SubjectStr(mesh) ==
  LET starred == IF mesh.majorTopic_YN = Str(<<"Y">>)
                 THEN <<"*">> \o mesh.descriptorName.s
                 ELSE mesh.descriptorName.s
  IN IF Truthy(mesh.qualifiers)
     THEN AppendQualifiers(starred, mesh.qualifiers.a)
     ELSE starred

\* epmc.ts 318-341: headings without a descriptor are skipped
ConvertSubjects(result) ==
  IF Truthy(result.mesh)
  THEN LET described == SelectSeq(result.mesh.a, LAMBDA m : Truthy(m.descriptorName))
       IN [i \in 1..Len(described) |-> SubjectStr(described[i])]
  ELSE <<>>

\* SkipResult that skips only when both title and abstract are missing
SkipResult_BothMissing(result) == ~Truthy(result.title) /\ ~Truthy(result.abstractText)

\* epmc.ts 257: the test that skips a result
SkipResult(result) == ~Truthy(result.title) \/ ~Truthy(result.abstractText)

\* epmc.ts 343-360: the record built from one result
PublicationOf(result) ==
  [t |-> "object",
   title |-> result.title,
   abstract |-> result.abstractText,
   doi |-> result.doi,
   authors |-> ConvertAuthors(result),
   source |-> "Europe PMC",
   fullTextUrl |-> FullTextUrl(result),
   subjects |-> ConvertSubjects(result),
   grants |-> ConvertGrants(result),
   isOpenAccess |-> result.isOpenAccess = Str(<<"Y">>)]

\* epmc.ts 249-366
convertEpmcResponseToPublications(epmcResponse) ==
  IF ~Truthy(epmcResponse.results) THEN <<>>
  ELSE LET kept == SelectSeq(epmcResponse.results.a, LAMBDA r : ~SkipResult(r))
       IN [i \in 1..Len(kept) |-> PublicationOf(kept[i])]

\* epmc.ts 233-244: the outcome of parsePublications, a returned list or a
\* thrown EpmcValidationError that carries the raw data
parsePublications(data) ==
  IF EpmcResponseSchema(data)
  THEN Return(convertEpmcResponseToPublications(data))
  ELSE Throw(EpmcValidationError("Failed to validate Europe PMC publication data", data))

IsEpmcError(error) == error.kind \in {"EpmcAPIError", "EpmcValidationError"}

\* epmc.ts 204-217: the try block of fetchEpmcData once the request has
\* ended with ev
fetchEpmcDataTry(ev) ==
  IF ev.type # "response" THEN Throw(PlatformThrow(ev))
  ELSE IF ~ResponseOk(ev) THEN Throw(Exception("Error", "HTTP " \o ToString(ev.status)))
  ELSE IF ev.body = Unparseable THEN Throw(PlatformThrow(ev))
  ELSE Return(ev.body)

\* The catch block that lets the signal's TimeoutError through
fetchEpmcDataCatch_KeepTimeout(error) ==
  IF error.kind = "TimeoutError" THEN error
  ELSE EpmcAPIError("Failed to fetch search data", error.message)

\* epmc.ts 218-227: the catch block of fetchEpmcData
fetchEpmcDataCatch(error) == EpmcAPIError("Failed to fetch search data", error.message)

\* epmc.ts 190-228
fetchEpmcData(ev) ==
  LET tried == fetchEpmcDataTry(ev)
  IN IF tried.ok THEN tried ELSE Throw(fetchEpmcDataCatch(tried.error))

\* epmc.ts 386-397: the catch block of getEpmcPublicationsByOrcid
getEpmcPublicationsCatch(error) ==
  IF IsEpmcError(error) THEN error
  ELSE EpmcAPIError("Failed to process publications", error.message)

\* epmc.ts 371-398: what getEpmcPublicationsByOrcid ends with, given what
\* fetchEpmcData ended with
getEpmcPublicationsByOrcid(fetched) ==
  IF ~Called(fetched) THEN NotCalled
  ELSE LET tried == IF fetched.ok THEN parsePublications(fetched.value) ELSE fetched
       IN IF tried.ok THEN Return(Arr(tried.value))
          ELSE Throw(getEpmcPublicationsCatch(tried.error))

(***************************************************************************)
(* NIH RePORTER: src/mcp/nih.ts                                            *)
(***************************************************************************)
\* nih.ts 139-145: the structured list, entry by entry
MapInvestigators(pis) ==
  [i \in 1..Len(pis) |->
     [given_name |-> pis[i].first_name,
      family_name |-> pis[i].last_name,
      credit_name |-> pis[i].full_name]]

\* nih.ts 147-160: the investigator rebuilt from contact_pi_name
SplitContactName(contact_pi_name) ==
  LET nameParts == Split(contact_pi_name.s, ",", 2)
  IN IF Len(nameParts) = 2
     THEN [given_name |-> Str(Trim(nameParts[2])),
           family_name |-> Str(Trim(nameParts[1])),
           credit_name |-> contact_pi_name]
     ELSE [given_name |-> Str(<<>>),
           family_name |-> contact_pi_name,
           credit_name |-> contact_pi_name]

\* nih.ts 136-161
PrincipalInvestigators(project) ==
  IF Truthy(project.principal_investigators)
  THEN MapInvestigators(project.principal_investigators.a)
  ELSE IF Truthy(project.contact_pi_name)
       THEN <<SplitContactName(project.contact_pi_name)>>
       ELSE <<>>

\* The keywords when the pieces are left untrimmed.
Keywords_Untrimmed(pref_terms) ==
  IF Truthy(pref_terms)
  THEN LET pieces == SplitAll(pref_terms.s, ";", <<>>)
           terms == [i \in 1..Len(pieces) |-> Str(pieces[i])]
       IN SelectSeq(terms, Truthy)
  ELSE <<>>

\* nih.ts 169-171: pref_terms split on ";", each piece trimmed, the empty
\* pieces dropped; no keywords when pref_terms is falsy
Keywords(pref_terms) ==
  IF Truthy(pref_terms)
  THEN LET pieces == SplitAll(pref_terms.s, ";", <<>>)
           terms == [i \in 1..Len(pieces) |-> Str(Trim(pieces[i]))]
       IN SelectSeq(terms, Truthy)
  ELSE <<>>

\* nih.ts 178: project.award_amount || undefined
Amount(award_amount) ==
  IF Truthy(award_amount) THEN award_amount ELSE Undefined

\* nih.ts 135-190, for the fields of the record the model follows
convertNIHProjectToGrantRecord(project) ==
  [t |-> "object",
   id |-> project.project_num,
   amount |-> Amount(project.award_amount),
   currency |-> "USD",
   principal_investigators |-> PrincipalInvestigators(project),
   keywords |-> Keywords(project.pref_terms)]

\* NIHPrincipalInvestigatorSchema
NIHPrincipalInvestigatorSchema(v) ==
  /\ v.t = "object"
  /\ IsOptString(v.first_name)
  /\ IsOptString(v.last_name)
  /\ IsOptString(v.full_name)

\* z.string().optional().nullable()
IsOptNullableString(v) == v.t \in {"undefined", "null", "string"}

\* NIHOrganizationSchema, for dept_type
NIHOrganizationSchema(v) ==
  /\ v.t = "object"
  /\ IsOptNullableString(v.dept_type)

\* The schema of full_study_section, for srgCode: an object whose srgCode is
\* an optional string
FullStudySectionSchema(v) ==
  /\ v.t = "object"
  /\ IsOptString(v.srgCode)

\* The schema of covid_response: an array of strings, optional and nullable
CovidResponseSchema(v) ==
  \/ v.t \in {"undefined", "null"}
  \/ v.t = "array" /\ \A i \in 1..Len(v.a) : v.a[i].t = "string"

\* NIHProjectSchema, for the fields the model follows: project_num is
\* required, contact_pi_name is optional and not nullable; organization and
\* full_study_section are optional objects.
NIHProjectSchema(v) ==
  /\ v.t = "object"
  /\ v.project_num.t = "string"
  /\ IsOptString(v.contact_pi_name)
  /\ v.organization.t = "undefined" \/ NIHOrganizationSchema(v.organization)
  /\ v.award_amount.t \in {"undefined", "null", "number"}
  /\ IsOptNullableString(v.pref_terms)
  /\ CovidResponseSchema(v.covid_response)
  /\ v.full_study_section.t = "undefined" \/ FullStudySectionSchema(v.full_study_section)
  /\ v.subproject_id.t \in {"undefined", "null", "number", "string"}
  /\ \/ v.principal_investigators.t = "undefined"
     \/ /\ v.principal_investigators.t = "array"
        /\ \A i \in 1..Len(v.principal_investigators.a) :
             NIHPrincipalInvestigatorSchema(v.principal_investigators.a[i])

\* NIHSearchResponseSchema: meta with numeric total, offset and limit, and a
\* list of projects, both required
NIHSearchResponseSchema(v) ==
  /\ v.t = "object"
  /\ v.meta.t = "object"
  /\ v.meta.total.t = "number"
  /\ v.meta.offset.t = "number"
  /\ v.meta.limit.t = "number"
  /\ v.results.t = "array"
  /\ \A i \in 1..Len(v.results.a) : NIHProjectSchema(v.results.a[i])

\* What NIHSearchResponseSchema.parse throws
ZodError == Exception("ZodError", "invalid_type")

\* nih.ts 210-224: the try block of fetchNIHData once the request has ended
\* with ev
fetchNIHDataTry(ev) ==
  IF ev.type # "response" THEN Throw(PlatformThrow(ev))
  ELSE IF ~ResponseOk(ev)
  THEN Throw(Exception("Error", "HTTP error! status: " \o ToString(ev.status)))
  ELSE IF ev.body = Unparseable THEN Throw(PlatformThrow(ev))
  ELSE Return(ev.body)

\* nih.ts 225-228: the catch block of fetchNIHData
fetchNIHDataCatch(error) ==
  Exception("Error", "Failed to fetch projects/search data: " \o error.message)

\* nih.ts 193-229
fetchNIHData(ev) ==
  LET tried == fetchNIHDataTry(ev)
  IN IF tried.ok THEN tried ELSE Throw(fetchNIHDataCatch(tried.error))

\* nih.ts 251-256: what getNIHGrantsByPIName ends with, given what
\* fetchNIHData ended with; nothing is caught here.
getNIHGrantsByPIName(fetched) ==
  IF ~Called(fetched) \/ ~fetched.ok THEN fetched
  ELSE IF ~Truthy(fetched.value) THEN Return(Arr(<<>>))
  ELSE IF ~NIHSearchResponseSchema(fetched.value) THEN Throw(ZodError)
  ELSE Return(Arr([i \in 1..Len(fetched.value.results.a) |->
                     convertNIHProjectToGrantRecord(fetched.value.results.a[i])]))

\* nih.ts 279-284
getNIHGrantsByOrganization(fetched) ==
  IF ~Called(fetched) \/ ~fetched.ok THEN fetched
  ELSE IF ~Truthy(fetched.value) THEN Return(Arr(<<>>))
  ELSE IF ~NIHSearchResponseSchema(fetched.value) THEN Throw(ZodError)
  ELSE Return(Arr([i \in 1..Len(fetched.value.results.a) |->
                     convertNIHProjectToGrantRecord(fetched.value.results.a[i])]))

\* The test that looks for the empty project number only.
BlankProjectNumber_EmptyOnly(projectNumber) == ~Truthy(projectNumber)

\* nih.ts 291: the project number is empty or only white space
BlankProjectNumber(projectNumber) ==
  ~Truthy(projectNumber) \/ Trim(projectNumber.s) = <<>>

\* nih.ts 303-312: what getNIHGrantByNumber ends with after its request,
\* given what fetchNIHData ended with
getNIHGrantByNumber(fetched) ==
  IF ~Called(fetched) \/ ~fetched.ok THEN fetched
  ELSE IF ~Truthy(fetched.value) THEN Return(Null)
  ELSE IF ~NIHSearchResponseSchema(fetched.value) THEN Throw(ZodError)
  ELSE IF Len(fetched.value.results.a) = 0 THEN Return(Null)
  ELSE Return(convertNIHProjectToGrantRecord(fetched.value.results.a[1]))

(***************************************************************************)
(* ORCID: src/mcp/nih.ts                                                   *)
(***************************************************************************)
TypeError == Exception("TypeError", "not a function or not iterable")

OrcidAPIError(message, details) ==
  [kind |-> "OrcidAPIError", message |-> message, details |-> details]

OrcidNotFoundError(message, details) ==
  [kind |-> "OrcidNotFoundError", message |-> message, details |-> details]

OrcidValidationError(message, details) ==
  [kind |-> "OrcidValidationError", message |-> message, details |-> details]

OrcidErrorKinds == {"OrcidAPIError", "OrcidNotFoundError", "OrcidValidationError"}

IsOrcidError(error) == error.kind \in OrcidErrorKinds

\* The try block of fetchOrcidData without the 404 branch
fetchOrcidDataTry_No404(orcidId, endpoint, ev) ==
  IF ev.type # "response" THEN Throw(PlatformThrow(ev))
  ELSE IF ~ResponseOk(ev)
  THEN Throw(OrcidAPIError("Failed to fetch " \o endpoint \o " data",
                           [orcidId |-> orcidId, endpoint |-> endpoint, status |-> ev.status]))
  ELSE IF ev.body = Unparseable THEN Throw(PlatformThrow(ev))
  ELSE Return(ev.body)

\* nih.ts 479-500: the try block of fetchOrcidData once the request has
\* ended with ev. fetch or response.json() throw what the platform throws; a
\* bad status is classified here, 404 as not found.
fetchOrcidDataTry(orcidId, endpoint, ev) ==
  IF ev.type # "response" THEN Throw(PlatformThrow(ev))
  ELSE IF ~ResponseOk(ev)
  THEN IF ev.status = 404
       THEN Throw(OrcidNotFoundError(
              "The requested researcher profile could not be found. Please verify the ORCID ID is correct.",
              [orcidId |-> orcidId, endpoint |-> endpoint]))
       ELSE Throw(OrcidAPIError("Failed to fetch " \o endpoint \o " data",
                                [orcidId |-> orcidId, endpoint |-> endpoint, status |-> ev.status]))
  ELSE IF ev.body = Unparseable THEN Throw(PlatformThrow(ev))
  ELSE Return(ev.body)

\* nih.ts 501-510: the catch block of fetchOrcidData
fetchOrcidDataCatch(orcidId, endpoint, error) ==
  IF error.kind \in {"OrcidAPIError", "OrcidNotFoundError"}
  THEN error
  ELSE OrcidAPIError("Failed to fetch " \o endpoint \o " data",
                     [orcidId |-> orcidId, error |-> error.message])

\* nih.ts 463-511
fetchOrcidData(orcidId, endpoint, ev) ==
  LET tried == fetchOrcidDataTry(orcidId, endpoint, ev)
  IN IF tried.ok THEN tried
     ELSE Throw(fetchOrcidDataCatch(orcidId, endpoint, tried.error))

\* nih.ts 513-555: an absent payload or group list gives no affiliation; a
\* group list that is not iterable, or a null group, throws.
parseAffiliations(data) ==
  IF ~Truthy(data) \/ data.t # "object" \/ ~Truthy(data.groups) THEN Return(<<>>)
  ELSE IF data.groups.t # "array" THEN Throw(TypeError)
  ELSE IF \E i \in 1..Len(data.groups.a) : data.groups.a[i].t \in {"null", "undefined"}
       THEN Throw(TypeError)
  ELSE Return([i \in 1..Len(data.groups.a) |->
                 [organization |-> data.groups.a[i].organization,
                  roleTitle |-> data.groups.a[i].roleTitle]])

\* nih.ts 602-609: the summaries of a group; an absent list gives none, a
\* null summary has no title property.
WorkSummaries(group) ==
  IF ~Truthy(group.workSummary) THEN Return(<<>>)
  ELSE IF group.workSummary.t # "array" THEN Throw(TypeError)
  ELSE IF \E i \in 1..Len(group.workSummary.a) :
            group.workSummary.a[i].t \in {"null", "undefined"}
       THEN Throw(TypeError)
  ELSE Return([i \in 1..Len(group.workSummary.a) |->
                 [title |-> group.workSummary.a[i].title,
                  publicationDate |-> group.workSummary.a[i].publicationDate,
                  journalTitle |-> group.workSummary.a[i].journalTitle,
                  source |-> group.workSummary.a[i].source]])

\* nih.ts 611-616: the external ids of a group
ExternalIds(group) ==
  IF ~Truthy(group.externalIds) THEN Return(<<>>)
  ELSE IF group.externalIds.t # "array" THEN Throw(TypeError)
  ELSE IF \E i \in 1..Len(group.externalIds.a) :
            group.externalIds.a[i].t \in {"null", "undefined"}
       THEN Throw(TypeError)
  ELSE Return([i \in 1..Len(group.externalIds.a) |->
                 [name |-> group.externalIds.a[i].type,
                  value |-> group.externalIds.a[i].value]])

\* nih.ts 594-625: an absent payload or group list gives no work; a group
\* list that is not iterable, or a null group, throws. The nested JSON
\* (title.title.value, 'journal-title'.value, source.'source-name'.value,
\* 'external-ids'.'external-id') is kept flat: one field per value read.
parseOrcidWorks(worksData) ==
  IF ~Truthy(worksData) \/ worksData.t # "object" \/ ~Truthy(worksData.groups)
  THEN Return(<<>>)
  ELSE IF worksData.groups.t # "array" THEN Throw(TypeError)
  ELSE IF \E i \in 1..Len(worksData.groups.a) :
            worksData.groups.a[i].t \in {"null", "undefined"}
       THEN Throw(TypeError)
  ELSE IF \E i \in 1..Len(worksData.groups.a) :
            \/ ~WorkSummaries(worksData.groups.a[i]).ok
            \/ ~ExternalIds(worksData.groups.a[i]).ok
       THEN Throw(TypeError)
  ELSE Return([i \in 1..Len(worksData.groups.a) |->
                 [workSummaries |-> WorkSummaries(worksData.groups.a[i]).value,
                  externalIds |-> ExternalIds(worksData.groups.a[i]).value]])

\* The days of a month of the proleptic Gregorian calendar
DaysIn(year, month) ==
  IF month = 2
  THEN IF year % 4 = 0 /\ (year % 100 # 0 \/ year % 400 = 0) THEN 29 ELSE 28
  ELSE IF month \in {4, 6, 9, 11} THEN 30 ELSE 31

\* new Date(year, monthIndex, day) for a month index in 0..11 and a day in
\* 1..31: a year in 0..99 means 1900 + year, and a day past the end of the
\* month runs over into the next month.
NewDate(year, monthIndex, day) ==
  LET fullYear == IF year >= 0 /\ year <= 99 THEN 1900 + year ELSE year
      month == monthIndex + 1
  IN IF day <= DaysIn(fullYear, month)
     THEN [t |-> "date", year |-> fullYear, month |-> month, day |-> day]
     ELSE [t |-> "date", year |-> fullYear, month |-> month + 1,
           day |-> day - DaysIn(fullYear, month)]

\* nih.ts 627-639 (year.value, month.value and day.value kept flat)
parseDate(dateObj) ==
  IF ~Truthy(dateObj) THEN Undefined
  ELSE LET year == dateObj.year
           month == IF Truthy(dateObj.month) THEN dateObj.month ELSE Num(1)
           day == IF Truthy(dateObj.day) THEN dateObj.day ELSE Num(1)
       IN IF Truthy(year) THEN NewDate(year.n, month.n - 1, day.n) ELSE Undefined

\* Array.prototype.find with a test of one field's truthiness, then the
\* field of what was found: undefined when nothing was found
RECURSIVE FindTruthy(_, _)
FindTruthy(values, k) ==
  IF k > Len(values) THEN Undefined
  ELSE IF Truthy(values[k]) THEN values[k]
  ELSE FindTruthy(values, k + 1)

\* Array.prototype.join(", ") over strings
RECURSIVE JoinSources(_)
JoinSources(sources) ==
  IF Len(sources) = 1 THEN sources[1].s
  ELSE sources[1].s \o <<",", " ">> \o JoinSources(Tail(sources))

DOI == Str(<<"d", "o", "i">>)

\* nih.ts 720: the value of the first external id named 'doi'
RECURSIVE FindDoi(_, _)
FindDoi(externalIds, k) ==
  IF k > Len(externalIds) THEN Undefined
  ELSE IF externalIds[k].name = DOI THEN externalIds[k].value
  ELSE FindDoi(externalIds, k + 1)

\* The publication that takes every value from the first summary
PublicationOfWork_FirstSummary(work) ==
  LET summaries == work.workSummaries
  IN [title |-> IF Len(summaries) > 0 THEN summaries[1].title ELSE Undefined,
      publicationDate |->
        IF Len(summaries) > 0 THEN parseDate(summaries[1].publicationDate) ELSE Undefined,
      journalName |-> IF Len(summaries) > 0 THEN summaries[1].journalTitle ELSE Undefined,
      source |-> IF Len(summaries) > 0 THEN summaries[1].source ELSE Undefined,
      doi |-> FindDoi(work.externalIds, 1)]

\* nih.ts 712-720 and 723-729: the publication of a work, whatever its title
PublicationOfWork(work) ==
  LET summaries == work.workSummaries
      sources == SelectSeq([i \in 1..Len(summaries) |-> summaries[i].source], Truthy)
  IN [title |-> FindTruthy([i \in 1..Len(summaries) |-> summaries[i].title], 1),
      publicationDate |->
        parseDate(FindTruthy([i \in 1..Len(summaries) |-> summaries[i].publicationDate], 1)),
      journalName |-> FindTruthy([i \in 1..Len(summaries) |-> summaries[i].journalTitle], 1),
      source |-> IF Len(sources) > 0 THEN Str(JoinSources(sources)) ELSE Undefined,
      doi |-> FindDoi(work.externalIds, 1)]

\* nih.ts 711-731: a work is pushed only when a title was found
Publications(works) ==
  LET all == [i \in 1..Len(works) |-> PublicationOfWork(works[i])]
  IN SelectSeq(all, LAMBDA pub : Truthy(pub.title))

\* nih.ts 573-577: personData.emails?.email, mapped; a truthy value that is
\* no array has no map method, and a null entry has no email property.
ParseEmails(personData) ==
  LET list == IF personData.t = "object" THEN personData.emails ELSE Undefined
  IN IF ~Truthy(list) THEN Return(<<>>)
     ELSE IF list.t # "array" THEN Throw(TypeError)
     ELSE IF \E i \in 1..Len(list.a) : list.a[i].t \in {"null", "undefined"}
          THEN Throw(TypeError)
     ELSE Return([i \in 1..Len(list.a) |->
                    [email |-> list.a[i].email,
                     verified |-> IF Truthy(list.a[i].verified)
                                  THEN list.a[i].verified ELSE Bool(FALSE),
                     primary |-> IF Truthy(list.a[i].primary)
                                 THEN list.a[i].primary ELSE Bool(FALSE)]])

\* nih.ts 557-592, for the fields of the profile the model follows
parseOrcidProfile(personData) ==
  LET emails == ParseEmails(personData)
  IN IF emails.ok
     THEN Return([name |-> IF personData.t = "object" THEN personData.name ELSE Undefined,
                  emails |-> emails.value])
     ELSE emails

\* The comparator with the two criteria in the other order
emailCompare_VerifiedFirst(a, b) ==
  IF Truthy(a.verified) /\ ~Truthy(b.verified) THEN -1
  ELSE IF ~Truthy(a.verified) /\ Truthy(b.verified) THEN 1
  ELSE IF Truthy(a.primary) /\ ~Truthy(b.primary) THEN -1
  ELSE IF ~Truthy(a.primary) /\ Truthy(b.primary) THEN 1
  ELSE 0

\* nih.ts 649-655: the comparator handed to sort
emailCompare(a, b) ==
  IF Truthy(a.primary) /\ ~Truthy(b.primary) THEN -1
  ELSE IF ~Truthy(a.primary) /\ Truthy(b.primary) THEN 1
  ELSE IF Truthy(a.verified) /\ ~Truthy(b.verified) THEN -1
  ELSE IF ~Truthy(a.verified) /\ Truthy(b.verified) THEN 1
  ELSE 0

\* Array.prototype.sort is stable: an element goes before the first element
\* of the sorted prefix that the comparator puts after it.
RECURSIVE InsertSorted(_, _)
InsertSorted(x, sorted) ==
  IF sorted = <<>> THEN <<x>>
  ELSE IF emailCompare(x, Head(sorted)) < 0 THEN <<x>> \o sorted
  ELSE <<Head(sorted)>> \o InsertSorted(x, Tail(sorted))

RECURSIVE SortEmails(_)
SortEmails(emails) ==
  IF emails = <<>> THEN <<>>
  ELSE InsertSorted(emails[Len(emails)], SortEmails(SubSeq(emails, 1, Len(emails) - 1)))

\* nih.ts 641-734, for the fields of the profile the model follows
createCustomerProfile(orcidProfile, orcidId, educations, employments, works) ==
  LET sortedEmails == SortEmails(orcidProfile.emails)
  IN [t |-> "object",
      researcherId |->
        [orcid |-> orcidId,
         name |-> orcidProfile.name,
         emails |-> [i \in 1..Len(sortedEmails) |->
                       [address |-> sortedEmails[i].email,
                        primary |-> sortedEmails[i].primary]]],
      educations |-> educations,
      employments |-> employments,
      publications |-> Publications(works)]

\* nih.ts 749-786: what getOrcidProfile does with the four payloads once
\* Promise.all has resolved
ProfileFromPayloads(orcidId, payloads) ==
  IF ~Truthy(payloads[1])
  THEN Throw(OrcidAPIError("No person data found", [orcidId |-> orcidId]))
  ELSE LET orcidProfile == parseOrcidProfile(payloads[1])
           orcidWorks == parseOrcidWorks(payloads[2])
           educations == parseAffiliations(payloads[3])
           employments == parseAffiliations(payloads[4])
       IN IF orcidProfile.ok /\ orcidWorks.ok /\ educations.ok /\ employments.ok
          THEN Return(createCustomerProfile(orcidProfile.value, orcidId, educations.value,
                                            employments.value, orcidWorks.value))
          ELSE Throw(OrcidValidationError("Failed to validate ORCID data",
                                          [orcidId |-> orcidId, rawData |-> payloads]))

\* The outer catch that wraps whatever reaches it
getOrcidProfileCatch_WrapAll(orcidId, error) ==
  OrcidAPIError("Failed to process author metadata",
                [orcidId |-> orcidId, error |-> error.message])

\* nih.ts 788-799: the outer catch of getOrcidProfile
getOrcidProfileCatch(orcidId, error) ==
  IF IsOrcidError(error)
  THEN error
  ELSE OrcidAPIError("Failed to process author metadata",
                     [orcidId |-> orcidId, error |-> error.message])

\* Promise.all that waits for every promise and passes undefined for the
\* rejected ones
PromiseAll_Settled(before, outs, i) ==
  IF Called(before) THEN before
  ELSE IF \A j \in 1..Len(outs) : Called(outs[j])
  THEN Return([j \in 1..Len(outs) |-> IF outs[j].ok THEN outs[j].value ELSE Undefined])
  ELSE NotCalled

\* Four awaits one after the other in place of Promise.all: the rejection
\* of a promise is seen once the promises before it have resolved.
PromiseAll_InOrder(before, outs, i) ==
  IF Called(before) THEN before
  ELSE IF \A j \in 1..Len(outs) : Succeeded(outs[j])
  THEN Return([j \in 1..Len(outs) |-> outs[j].value])
  ELSE LET k == CHOOSE j \in 1..Len(outs) :
                  ~Succeeded(outs[j]) /\ \A l \in 1..(j - 1) : Succeeded(outs[l])
       IN IF Called(outs[k]) THEN outs[k] ELSE NotCalled

\* Promise.all (nih.ts 742-747): the state of its promise after the promise
\* at position i settled, given its state before and the states outs of the
\* promises now. A settled promise stays as it is; a pending one rejects
\* with the rejection that has just arrived and resolves with all values
\* once every promise has resolved.
PromiseAll(before, outs, i) ==
  IF Called(before) THEN before
  ELSE IF ~outs[i].ok THEN outs[i]
  ELSE IF \A j \in 1..Len(outs) : Called(outs[j])
  THEN Return([j \in 1..Len(outs) |-> outs[j].value])
  ELSE NotCalled

\* nih.ts 736-800: what getOrcidProfile ends with, given the state of its
\* Promise.all
getOrcidProfile(orcidId, join) ==
  IF ~Called(join) THEN NotCalled
  ELSE LET tried == IF join.ok THEN ProfileFromPayloads(orcidId, join.value) ELSE join
       IN IF tried.ok THEN tried
          ELSE Throw(getOrcidProfileCatch(orcidId, tried.error))

(***************************************************************************)
(* Google Maps: src/mcp/maps.ts                                            *)
(***************************************************************************)
GoogleMapsError(message) == [kind |-> "GoogleMapsError", message |-> message]

OK == Str(<<"O", "K">>)

\* maps.ts 66-71 and 106-111: the catch block of both methods
GoogleMapsCatch(prefix, error) ==
  IF error.kind = "GoogleMapsError" THEN error
  ELSE GoogleMapsError(prefix \o error.kind \o ": " \o error.message)

\* maps.ts 44-65: the try block of getCoordinates once the request has ended
\* with ev. The body is parsed before the status is looked at; a body that
\* is no object, or a result without geometry, throws a TypeError.
getCoordinatesTry(address, ev) ==
  IF ev.type # "response" \/ ev.body = Unparseable THEN Throw(PlatformThrow(ev))
  ELSE IF ev.body.t # "object" THEN Throw(TypeError)
  ELSE IF ~ResponseOk(ev) \/ ev.body.status # OK
  THEN Throw(GoogleMapsError("Geocoding failed"))
  ELSE IF ~Truthy(ev.body.results) \/ Len(ev.body.results.a) = 0
  THEN Throw(GoogleMapsError("No results found for address"))
  ELSE IF ev.body.results.a[1].geometry.t # "object" THEN Throw(TypeError)
  ELSE Return([t |-> "object",
               latitude |-> ev.body.results.a[1].geometry.lat,
               longitude |-> ev.body.results.a[1].geometry.lng,
               formatted_address |-> ev.body.results.a[1].formatted_address,
               address |-> address])

\* maps.ts 42-72
getCoordinates(address, ev) ==
  LET tried == getCoordinatesTry(address, ev)
  IN IF tried.ok THEN tried
     ELSE Throw(GoogleMapsCatch("Failed to geocode address: ", tried.error))

\* element.distance.value / 1000 with the fraction dropped
Kilometres_Truncated(meters) ==
  [t |-> "number", whole |-> meters.n \div 1000, thousandths |-> 0]

\* maps.ts 101: element.distance.value / 1000, a decimal number kept as its
\* whole part and its thousandths (12345 gives 12.345)
Kilometres(meters) ==
  [t |-> "number", whole |-> meters.n \div 1000, thousandths |-> meters.n % 1000]

\* array[0] read off a value: undefined and null have no properties
First(array) ==
  IF array.t \in {"undefined", "null"} THEN Throw(TypeError)
  ELSE IF array.t = "array" /\ Len(array.a) > 0 THEN Return(array.a[1])
  ELSE Return(Undefined)

\* maps.ts 98-105: the result built from the first element; reading a
\* property of an absent address list, distance or duration throws.
DistanceResult(data, element) ==
  IF \/ ~First(data.origin_addresses).ok
     \/ ~First(data.destination_addresses).ok
     \/ element.distance.t # "object"
     \/ element.duration.t # "object"
  THEN Throw(TypeError)
  ELSE Return([t |-> "object",
               origin_address |-> First(data.origin_addresses).value,
               destination_address |-> First(data.destination_addresses).value,
               distance_km |-> Kilometres(element.distance.value),
               distance_text |-> element.distance.text,
               duration |-> element.duration.text,
               duration_seconds |-> element.duration.value])

\* maps.ts 79-105: the try block of calculateDistance once the request has
\* ended with ev
calculateDistanceTry(ev) ==
  IF ev.type # "response" \/ ev.body = Unparseable THEN Throw(PlatformThrow(ev))
  ELSE IF ev.body.t # "object" THEN Throw(TypeError)
  ELSE IF ~ResponseOk(ev) \/ ev.body.status # OK
  THEN Throw(GoogleMapsError("Distance calculation failed"))
  ELSE IF \/ ~Truthy(ev.body.rows)
          \/ Len(ev.body.rows.a) = 0
          \/ ~Truthy(ev.body.rows.a[1].elements)
          \/ Len(ev.body.rows.a[1].elements.a) = 0
  THEN Throw(GoogleMapsError("No results found for distance calculation"))
  ELSE IF ev.body.rows.a[1].elements.a[1].status # OK
  THEN Throw(GoogleMapsError("Could not calculate distance"))
  ELSE DistanceResult(ev.body, ev.body.rows.a[1].elements.a[1])

\* maps.ts 77-112
calculateDistance(ev) ==
  LET tried == calculateDistanceTry(ev)
  IN IF tried.ok THEN tried
     ELSE Throw(GoogleMapsCatch("Failed to calculate distance: ", tried.error))

(***************************************************************************)
(* Consolidated Screening List: src/mcp/screening.ts                       *)
(***************************************************************************)
ScreeningListError(message) == [kind |-> "ScreeningListError", message |-> message]

\* screening.ts 82-116: the try block of search once the request has ended
\* with ev; the parsed body is returned as it is.
searchTry(ev) ==
  IF ev.type # "response" THEN Throw(PlatformThrow(ev))
  ELSE IF ~ResponseOk(ev)
  THEN Throw(ScreeningListError("API returned status " \o ToString(ev.status)))
  ELSE IF ev.body = Unparseable THEN Throw(PlatformThrow(ev))
  ELSE Return(ev.body)

\* screening.ts 117-122: the catch block of search
searchCatch(error) ==
  IF error.kind = "ScreeningListError" THEN error
  ELSE ScreeningListError("Failed to search screening list: " \o error.kind \o ": "
                          \o error.message)

\* screening.ts 81-123
search(ev) ==
  LET tried == searchTry(ev)
  IN IF tried.ok THEN tried ELSE Throw(searchCatch(tried.error))

(***************************************************************************)
(* The tool handlers: src/unnamed/part_000                                 *)
(***************************************************************************)
\* JSON.stringify(value, null, 2): a string, except that undefined gives
\* undefined.
Stringify(value) ==
  IF value.t = "undefined" THEN Undefined
  ELSE [t |-> "string", isError |-> FALSE, json |-> value, message |-> ""]

\* `Error: ${error.message}`
ErrorText(message) ==
  [t |-> "string", isError |-> TRUE, json |-> Undefined, message |-> "Error: " \o message]

\* part_000 43-48, 81-86, 98-103, 134-139, 157-161, 179-183, 204-208: the
\* try and catch every handler has around its adapter call, given what the
\* call ended with: the stringified value, or the error's message.
HandleResult(out) ==
  IF ~Called(out) THEN NotCalled
  ELSE IF out.ok THEN Return(Stringify(out.value))
  ELSE Return(ErrorText(out.error.message))

\* publications[index] for a number index: undefined unless the index is a
\* position of the array
ElementAt(array, index) ==
  IF index \in 0..(Len(array.a) - 1) THEN array.a[index + 1] ELSE Undefined

\* part_000 59-69: the handler of get_publication_details
Handle_get_publication_details(index, out) ==
  IF ~Called(out) THEN NotCalled
  ELSE IF ~out.ok THEN Return(ErrorText(out.error.message))
  ELSE IF index >= Len(out.value.a)
  THEN Return(ErrorText("Publication index " \o ToString(index) \o " is out of range. Found "
                        \o ToString(Len(out.value.a)) \o " publications."))
  ELSE Return(Stringify(ElementAt(out.value, index)))

\* part_000 113-123: the handler of get_nih_grant_by_number
Handle_get_nih_grant_by_number(out) ==
  IF ~Called(out) THEN NotCalled
  ELSE IF ~out.ok THEN Return(ErrorText(out.error.message))
  ELSE IF ~Truthy(out.value) THEN Return(ErrorText("Grant not found."))
  ELSE Return(Stringify(out.value))

\* part_000 152-155, 174-177, 199-202: the text returned when the
\* credential is not set
MissingKeyText(variable) ==
  Return(ErrorText(variable \o " environment variable is not set."))

(***************************************************************************)
(* Payloads the registries can answer with.                                *)
(***************************************************************************)
Ch(str) == Str(<<str>>)

EpmcResult(title, abstractText, doi, authors, mesh) ==
  [t |-> "object", title |-> title, abstractText |-> abstractText, doi |-> doi,
   isOpenAccess |-> Undefined, authors |-> authors, mesh |-> mesh,
   urls |-> Undefined, grants |-> Undefined]

EpmcResponse(results) == [t |-> "object", results |-> results]

\* The entries of a full-text URL list: without url, with an empty url, or
\* with one of two urls.
FullTextUrls ==
  {[t |-> "object", url |-> u] : u \in {Undefined, Str(<<>>), Ch("u"), Ch("v")}}

OptText == {Undefined, Str(<<>>), Ch("T")}

\* Results that differ in the presence of title and abstract; the doi tells
\* the results apart.
DropResults ==
  {EpmcResult(ti, ab, doi, Undefined, Undefined) :
     ti \in OptText, ab \in OptText, doi \in {Ch("1"), Ch("2")}}

IdTypes ==
  {Undefined, Str(<<>>), Str(ORCID_TYPE), Str(<<"o", "r", "c", "i", "d">>),
   Str(<<"O", "r", "c", "I", "d">>), Str(<<"O", "R", "C", "I">>), Str(<<"D", "O", "I">>)}

AuthorIds ==
  {Undefined} \cup
  {[t |-> "object", type |-> ty, value |-> va] :
     ty \in IdTypes, va \in {Undefined, Str(<<>>), Ch("7")}}

EpmcAuthors ==
  {[t |-> "object", fullName |-> fn, lastName |-> Undefined, authorId |-> id,
    affiliations |-> Undefined] : fn \in {Undefined, Ch("N")}, id \in AuthorIds}

Qualifiers == {[t |-> "object", qualifierName |-> q] : q \in {Ch("q"), Ch("r")}}

NamelessQualifier == [t |-> "object", qualifierName |-> Undefined]

QualifierLists ==
  {Undefined, Arr(<<NamelessQualifier, [t |-> "object", qualifierName |-> Ch("q")]>>)}
  \cup {Arr(qs) : qs \in SeqsUpTo(Qualifiers, MaxQual)}

MeshHeading(major, descriptor, qualifiers) ==
  [t |-> "object", majorTopic_YN |-> major, descriptorName |-> descriptor,
   qualifiers |-> qualifiers]

MeshHeadings ==
  {MeshHeading(ma, Ch("D"), qs) : ma \in {Ch("Y"), Ch("N")}, qs \in QualifierLists}
  \cup {MeshHeading(Undefined, Ch("D"), Undefined),
        MeshHeading(Ch("y"), Ch("D"), Undefined),
        MeshHeading(Ch("Y"), Undefined, Undefined),
        MeshHeading(Ch("Y"), Str(<<>>), Arr(<<>>))}

PiNameLetters == {"S", "J", ",", " "}

NihInvestigators ==
  {[t |-> "object", first_name |-> fi, last_name |-> la, full_name |-> Undefined] :
     fi \in {Undefined, Ch("J")}, la \in {Undefined, Ch("S")}}

NihProject(pis, contact) ==
  [t |-> "object", project_num |-> Ch("1"), principal_investigators |-> pis,
   contact_pi_name |-> contact, organization |-> Undefined,
   award_amount |-> Undefined, pref_terms |-> Undefined,
   covid_response |-> Undefined, full_study_section |-> Undefined,
   subproject_id |-> Undefined]

\* Award amounts: absent, null, and every whole amount up to MaxAmount.
AwardAmounts == {Undefined, Null} \cup {Num(n) : n \in -1..MaxAmount}

TermLetters == {"a", "b", ";", " "}

\* The organization of a project, for dept_type.
Organizations ==
  {Undefined} \cup {[t |-> "object", dept_type |-> d] : d \in {Undefined, Null, Ch("a")}}

\* The study section of a project, for srgCode.
StudySections ==
  {Undefined, Null} \cup {[t |-> "object", srgCode |-> c] : c \in {Undefined, Null, Ch("a")}}

CovidResponses == {Undefined, Null, Arr(<<>>), Arr(<<Ch("a")>>)}

SubprojectIds == {Undefined, Null, Num(1), Ch("1")}

EmailFlags == {Undefined, Bool(TRUE), Bool(FALSE)}

OrcidEmails ==
  {[t |-> "object", email |-> ad, verified |-> ve, primary |-> pr] :
     ad \in {Ch("a"), Ch("b")}, ve \in {Bool(TRUE), Bool(FALSE)}, pr \in EmailFlags}

PersonData(emails) == [t |-> "object", name |-> Ch("N"), emails |-> emails]

OrcidId == Ch("0")

Endpoints == <<"person", "works", "educations", "employments">>

GoodPerson ==
  PersonData(Arr(<<[t |-> "object", email |-> Ch("a"), verified |-> Bool(TRUE),
                    primary |-> Bool(FALSE)],
                   [t |-> "object", email |-> Ch("b"), verified |-> Bool(FALSE),
                    primary |-> Bool(TRUE)]>>))

GroupData(groups) == [t |-> "object", groups |-> groups]

DateObj(year, month, day) == [t |-> "object", year |-> year, month |-> month, day |-> day]

Summary(title, publicationDate, journalTitle, source) ==
  [t |-> "object", title |-> title, publicationDate |-> publicationDate,
   journalTitle |-> journalTitle, source |-> source]

ExternalId(type, value) == [t |-> "object", type |-> type, value |-> value]

WorkGroup(summaries, ids) == [t |-> "object", workSummary |-> summaries, externalIds |-> ids]

\* The summaries of a work group: two versions of a work's description,
\* each with any of its four values missing, and one with an empty title.
Summaries ==
  {Summary(IF ti THEN Ch(v[1]) ELSE Undefined,
           IF da THEN DateObj(Num(v[2]), Undefined, Undefined) ELSE Undefined,
           IF jo THEN Ch(v[3]) ELSE Undefined,
           IF so THEN Ch(v[4]) ELSE Undefined) :
     v \in {<<"T", 2020, "J", "S">>, <<"U", 2021, "K", "R">>},
     ti \in BOOLEAN, da \in BOOLEAN, jo \in BOOLEAN, so \in BOOLEAN}
  \cup {Summary(Str(<<>>), Undefined, Ch("J"), Ch("S"))}

\* The external-id lists of a work group: none, a DOI, another type, a DOI
\* after another type, two DOIs, a type written "DOI".
IdLists ==
  {Undefined,
   Arr(<<ExternalId(DOI, Ch("1"))>>),
   Arr(<<ExternalId(Str(<<"i", "s", "s", "n">>), Ch("9"))>>),
   Arr(<<ExternalId(Str(<<"i", "s", "s", "n">>), Ch("9")), ExternalId(DOI, Ch("1"))>>),
   Arr(<<ExternalId(DOI, Ch("1")), ExternalId(DOI, Ch("2"))>>),
   Arr(<<ExternalId(Str(<<"D", "O", "I">>), Ch("1"))>>)}

\* Work groups with and without a title, with every external-id list
IdGroups ==
  {WorkGroup(su, ids) :
     su \in {Undefined,
             Arr(<<Summary(Ch("T"), Undefined, Undefined, Undefined)>>),
             Arr(<<Summary(Undefined, Undefined, Ch("J"), Undefined)>>)},
     ids \in IdLists}

Years == {Undefined, Num(1999), Num(2020), Num(2021)}
Months == {Undefined, Num(1), Num(2), Num(4), Num(12)}
Days == {Undefined, Num(1), Num(29), Num(30), Num(31)}

\* The publication dates of a summary: none, null, and every combination
\* of a year, a month and a day, each of which may be missing
DateObjs ==
  {Undefined, Null} \cup {DateObj(y, mo, d) : y \in Years, mo \in Months, d \in Days}

GoodWorks ==
  GroupData(Arr(<<WorkGroup(Arr(<<Summary(Ch("T"), DateObj(Num(2020), Num(5), Undefined),
                                          Ch("J"), Ch("S"))>>),
                            Arr(<<ExternalId(DOI, Ch("1"))>>))>>))

GoodAffiliations ==
  GroupData(Arr(<<[t |-> "object", organization |-> Ch("U"), roleTitle |-> Undefined]>>))

\* The JSON bodies the ORCID registry answers with: well-formed ones, null,
\* and ones of another shape (a number where a list is expected, a string
\* where the person object is expected).
OrcidBodies(i) ==
  IF i = 1 THEN {GoodPerson, Null, PersonData(Num(5)), Ch("x")}
  ELSE IF i = 2 THEN {GoodWorks, GroupData(Undefined), GroupData(Num(5))}
  ELSE {GoodAffiliations, GroupData(Num(5))}

\* The JSON bodies Europe PMC answers with: well-formed ones (no result
\* list, results of which the second lacks its abstract), null, and ones of
\* another shape (a string for the result list, a number for a title).
EpmcBodies ==
  {EpmcResponse(Undefined),
   EpmcResponse(Arr(<<EpmcResult(Ch("T"), Ch("T"), Ch("1"), Undefined, Undefined),
                      EpmcResult(Ch("T"), Undefined, Ch("2"), Undefined, Undefined),
                      EpmcResult(Ch("T"), Ch("T"), Ch("2"), Undefined, Undefined)>>)),
   Null,
   EpmcResponse(Ch("x")),
   EpmcResponse(Arr(<<EpmcResult(Num(5), Ch("T"), Ch("1"), Undefined, Undefined)>>))}

NihMeta == [t |-> "object", total |-> Num(1), offset |-> Num(0), limit |-> Num(1)]

NihResponse(meta, results) == [t |-> "object", meta |-> meta, results |-> results]

\* The JSON bodies NIH RePORTER answers with: well-formed ones (no project,
\* one project, two projects), null, and ones of another shape (a string for
\* the project list, no meta, null for the contact name).
NihBodies ==
  {NihResponse(NihMeta, Arr(<<>>)),
   NihResponse(NihMeta, Arr(<<NihProject(Undefined, Str(<<"S", ",", "J">>))>>)),
   NihResponse(NihMeta, Arr(<<[NihProject(Undefined, Undefined) EXCEPT !.project_num = Ch("2")],
                              NihProject(Undefined, Undefined)>>)),
   Null,
   NihResponse(NihMeta, Ch("x")),
   NihResponse(Undefined, Arr(<<>>)),
   NihResponse(NihMeta, Arr(<<NihProject(Undefined, Null)>>))}

GeoResult(geometry) ==
  [t |-> "object", geometry |-> geometry, formatted_address |-> Ch("F")]

GeoBody(status, results) == [t |-> "object", status |-> status, results |-> results]

\* The JSON bodies of the geocoding service
GeocodeBodies ==
  {GeoBody(OK, Arr(<<GeoResult([t |-> "object", lat |-> Num(1), lng |-> Num(2)])>>)),
   GeoBody(OK, Arr(<<GeoResult(Undefined)>>)),
   GeoBody(OK, Arr(<<>>)),
   GeoBody(Str(<<"N", "O">>), Undefined),
   Null}

Measure(value, text) == [t |-> "object", value |-> Num(value), text |-> Ch(text)]

DistanceElement(status, distance, duration) ==
  [t |-> "object", status |-> status, distance |-> distance, duration |-> duration]

DistanceBody(status, rows) ==
  [t |-> "object", status |-> status, origin_addresses |-> Arr(<<Ch("A")>>),
   destination_addresses |-> Arr(<<Ch("B")>>), rows |-> rows]

Row(elements) == [t |-> "object", elements |-> elements]

\* The distances in meters the distance matrix answers with
Meters == {0, 1, 999, 1000, 12345}

\* The JSON bodies of the distance-matrix service
DistanceBodies ==
  {DistanceBody(OK, Arr(<<Row(Arr(<<DistanceElement(OK, Measure(n, "d"), Measure(60, "t"))>>))>>)) :
     n \in Meters}
  \cup
  {DistanceBody(OK, Arr(<<Row(Arr(<<DistanceElement(OK, Undefined, Measure(60, "t"))>>))>>)),
   DistanceBody(OK, Arr(<<Row(Arr(<<DistanceElement(OK, Measure(5, "d"), Undefined)>>))>>)),
   DistanceBody(OK, Arr(<<Row(Arr(<<DistanceElement(Str(<<"N", "O">>), Undefined, Undefined)>>))>>)),
   DistanceBody(OK, Arr(<<Row(Arr(<<>>))>>)),
   DistanceBody(OK, Arr(<<>>)),
   DistanceBody(Str(<<"N", "O">>), Undefined),
   Null}

\* The JSON bodies of the screening list
ScreeningBodies == {[t |-> "object", total |-> Num(0), results |-> Arr(<<>>)], Null, Ch("x")}

\* The bodies the registry of a tool answers the request at position i with.
Bodies(name, i) ==
  CASE name = "get_orcid_profile" -> OrcidBodies(i)
    [] name \in {"search_epmc_by_orcid", "get_publication_details"} -> EpmcBodies
    [] name = "get_coordinates" -> GeocodeBodies
    [] name = "calculate_distance" -> DistanceBodies
    [] name = "search_screening_list" -> ScreeningBodies
    [] OTHER -> NihBodies

\* What a request can end with, the timeout aside: an answer with a good
\* status and a body or a text that is no JSON, an answer with a bad status,
\* a failure of the network.
Events(name, i) ==
  {HttpResponse(200, b) : b \in Bodies(name, i) \cup {Unparseable}}
  \cup {HttpResponse(404, Undefined), HttpResponse(500, Undefined), NetworkError}

\* The arguments the harness calls the tools with.
PublicationIndexes == -1..MaxResults

ProjectNumbers == {Str(<<>>), Ch(" "), Str(<<" ", " ">>), Ch("R"), Str(<<" ", "R">>)}

ApiKeys == {Undefined, Str(<<>>), Ch("k")}

(***************************************************************************)
(* State.                                                                  *)
(***************************************************************************)
VARIABLES
  epmcData,        \* the data handed to parsePublications
  epmcOut,         \* what parsePublications returned or threw
  project,         \* the project handed to convertNIHProjectToGrantRecord
  validated,       \* what NIHProjectSchema.parse returned or threw for project
  grantRecord,     \* what convertNIHProjectToGrantRecord returned
  personData,      \* the person payload handed to parseOrcidProfile
  worksData,       \* the works payload handed to parseOrcidWorks
  customerProfile, \* what createCustomerProfile returned, or the parse error
  tool,            \* the tool the harness has called, "none" before the call
  args,            \* the arguments of the call
  fetches,         \* the requests of the call: state, timer, end, result
  joinOut,         \* the promise of Promise.all in getOrcidProfile
  opOut,           \* what the adapter operation ended with
  toolOut          \* what the tool handler returned to the harness

vars == <<epmcData, epmcOut, project, validated, grantRecord, personData, worksData, customerProfile,
          tool, args, fetches, joinOut, opOut, toolOut>>

serverVars == <<tool, args, fetches, joinOut, opOut, toolOut>>

epmcVars == <<epmcData, epmcOut>>
nihVars == <<project, validated, grantRecord>>
profileVars == <<personData, worksData, customerProfile>>

\* The variables of a normalizer that is not the one under study.
NoEpmc == epmcData = EpmcResponse(Undefined) /\ epmcOut = NotCalled
NoNih ==
  /\ project = NihProject(Undefined, Undefined)
  /\ validated = NotCalled
  /\ grantRecord = NotCalled
NoProfile ==
  /\ personData = PersonData(Undefined)
  /\ worksData = GroupData(Undefined)
  /\ customerProfile = NotCalled

IdleFetch == [st |-> "idle", timer |-> "unset", event |-> NoEvent, out |-> NotCalled]

NoArgs ==
  [orcid_id |-> Undefined, publication_index |-> 0, project_number |-> Undefined,
   apiKey |-> Undefined]

\* The server after construction: no tool called, no request issued.
NoCall ==
  /\ tool = "none"
  /\ args = NoArgs
  /\ fetches = [i \in 1..4 |-> IdleFetch]
  /\ joinOut = NotCalled
  /\ opOut = NotCalled
  /\ toolOut = NotCalled

(***************************************************************************)
(* The Europe PMC normalizer on every response of the families.            *)
(***************************************************************************)
\* The responses of three families: results to drop, authors with
\* identifiers, MeSH headings with qualifiers.
InitEpmc ==
  /\ \/ epmcData = EpmcResponse(Undefined)
     \/ \E n \in 0..MaxResults : \E rs \in [1..n -> DropResults] :
          epmcData = EpmcResponse(Arr(rs))
     \/ \E n \in 0..MaxAuthors : \E as \in [1..n -> EpmcAuthors] :
          epmcData =
            EpmcResponse(Arr(<<EpmcResult(Ch("T"), Ch("T"), Ch("1"), Arr(as), Undefined)>>))
     \/ \E n \in 0..MaxMesh : \E ms \in [1..n -> MeshHeadings] :
          epmcData =
            EpmcResponse(Arr(<<EpmcResult(Ch("T"), Ch("T"), Ch("1"), Undefined, Arr(ms))>>))
     \/ \E n \in 0..MaxUrls : \E us \in [1..n -> FullTextUrls] :
          epmcData =
            EpmcResponse(Arr(<<[EpmcResult(Ch("T"), Ch("T"), Ch("1"), Undefined, Undefined)
                                  EXCEPT !.urls = Arr(us)]>>))
  /\ epmcOut = NotCalled
  /\ NoNih
  /\ NoProfile
  /\ NoCall

ParsePublications ==
  /\ ~Called(epmcOut)
  /\ epmcOut' = parsePublications(epmcData)
  /\ UNCHANGED <<epmcData, nihVars, profileVars, serverVars>>

NextEpmc == ParsePublications

SpecEpmc == InitEpmc /\ [][NextEpmc]_vars

(***************************************************************************)
(* Properties of the Europe PMC normalizer.                                *)
(***************************************************************************)
\* A value is present when it is a non-empty string; undefined and the
\* empty string both count as absent, as they do in the code's tests.
Present(v) == v.t = "string" /\ v.s # <<>>

SourceResults == IF epmcData.results.t = "array" THEN epmcData.results.a ELSE <<>>

\* The positions of seq whose element satisfies Test, and the k-th of them.
PositionsOf(seq, Test(_)) == {i \in 1..Len(seq) : Test(seq[i])}

Nth(positions, k) == CHOOSE i \in positions : Cardinality({j \in positions : j <= i}) = k

Complete(r) == Present(r.title) /\ Present(r.abstractText)

\* The source result the k-th emitted record comes from.
SourceOf(k) == SourceResults[Nth(PositionsOf(SourceResults, Complete), k)]

Emitted == epmcOut.ok /\ Called(epmcOut)

\* C6: no record is emitted for a result without title or without abstract;
\* every emitted record has both, and the emitted records are the complete
\* source results in source order.
C6_DropInvariant ==
  Emitted =>
    /\ Len(epmcOut.value) = Cardinality(PositionsOf(SourceResults, Complete))
    /\ \A k \in 1..Len(epmcOut.value) :
         /\ Present(epmcOut.value[k].title)
         /\ Present(epmcOut.value[k].abstract)
         /\ epmcOut.value[k].title = SourceOf(k).title
         /\ epmcOut.value[k].abstract = SourceOf(k).abstractText
         /\ epmcOut.value[k].doi = SourceOf(k).doi

\* C6 witness: a result was dropped and a later one was emitted.
C6_Witness ==
  /\ Emitted
  /\ Len(SourceResults) = 2
  /\ ~Complete(SourceResults[1])
  /\ Len(epmcOut.value) = 1

\* Two letters that differ at most in case, and strings equal up to case.
SameLetter(c, d) ==
  c = d \/ \E j \in 1..Len(Lower) : {c, d} = {Lower[j], Upper[j]}

EqIgnoreCase(a, b) ==
  Len(a) = Len(b) /\ \A i \in 1..Len(a) : SameLetter(a[i], b[i])

Named(au) == Present(au.fullName)

SourceAuthors(r) == IF r.authors.t = "array" THEN r.authors.a ELSE <<>>

\* The source author the j-th emitted author of the k-th record comes from.
SourceAuthorOf(k, j) ==
  SourceAuthors(SourceOf(k))[Nth(PositionsOf(SourceAuthors(SourceOf(k)), Named), j)]

\* The declared type of the author's identifier is "ORCID" up to case.
DeclaredOrcid(au) ==
  /\ au.authorId.t = "object"
  /\ au.authorId.type.t = "string"
  /\ EqIgnoreCase(au.authorId.type.s, ORCID_TYPE)

\* C7 as stated: an emitted author has an ORCID exactly when the declared
\* type of the source identifier is "ORCID" up to case.
C7_OrcidIffType ==
  Emitted =>
    \A k \in 1..Len(epmcOut.value) :
      \A j \in 1..Len(epmcOut.value[k].authors) :
        Present(epmcOut.value[k].authors[j].orcid) <=> DeclaredOrcid(SourceAuthorOf(k, j))

\* C7 amended: an emitted author has an ORCID exactly when the declared type
\* of the source identifier is "ORCID" up to case and the identifier carries
\* a non-empty value; the ORCID is then that value.
C7_OrcidIffTypeAndValue ==
  Emitted =>
    \A k \in 1..Len(epmcOut.value) :
      \A j \in 1..Len(epmcOut.value[k].authors) :
        LET au == SourceAuthorOf(k, j)
            orcid == epmcOut.value[k].authors[j].orcid
        IN /\ Present(orcid) <=> (DeclaredOrcid(au) /\ Present(au.authorId.value))
           /\ Present(orcid) => orcid = au.authorId.value
           /\ ~Present(orcid) => orcid = Undefined

\* C7 witness: an identifier of type "orcid" in lower case populated the
\* ORCID of the second emitted author, after one of another type did not.
C7_Witness ==
  /\ Emitted
  /\ Len(epmcOut.value) = 1
  /\ Len(epmcOut.value[1].authors) = 2
  /\ epmcOut.value[1].authors[1].orcid = Undefined
  /\ SourceAuthorOf(1, 1).authorId.t = "object"
  /\ SourceAuthorOf(1, 1).authorId.type = Str(<<"D", "O", "I">>)
  /\ SourceAuthorOf(1, 2).authorId.t = "object"
  /\ SourceAuthorOf(1, 2).authorId.type = Str(<<"o", "r", "c", "i", "d">>)
  /\ epmcOut.value[1].authors[2].orcid = Ch("7")

Described(m) == Present(m.descriptorName)

SourceMesh(r) == IF r.mesh.t = "array" THEN r.mesh.a ELSE <<>>

\* The heading the j-th subject of the k-th record comes from.
SourceHeadingOf(k, j) ==
  SourceMesh(SourceOf(k))[Nth(PositionsOf(SourceMesh(SourceOf(k)), Described), j)]

\* The qualifier names of a heading that are present, in source order.
QualifierNames(m) ==
  IF m.qualifiers.t = "array"
  THEN LET named == SelectSeq(m.qualifiers.a, LAMBDA q : Present(q.qualifierName))
       IN [i \in 1..Len(named) |-> named[i].qualifierName.s]
  ELSE <<>>

\* "/" and the name, for every name in order.
RECURSIVE Slashed(_)
Slashed(names) ==
  IF names = <<>> THEN <<>> ELSE <<"/">> \o Head(names) \o Slashed(Tail(names))

\* C10: the subject of a MeSH heading with a descriptor is "*" exactly when
\* the heading is marked "Y", then the descriptor, then "/" and the name for
\* every qualifier name in source order; there is one subject per heading
\* with a descriptor, in source order.
C10_MeshSubject ==
  Emitted =>
    \A k \in 1..Len(epmcOut.value) :
      /\ Len(epmcOut.value[k].subjects) =
           Cardinality(PositionsOf(SourceMesh(SourceOf(k)), Described))
      /\ \A j \in 1..Len(epmcOut.value[k].subjects) :
           LET m == SourceHeadingOf(k, j)
               star == IF m.majorTopic_YN = Ch("Y") THEN <<"*">> ELSE <<>>
           IN epmcOut.value[k].subjects[j] =
                star \o m.descriptorName.s \o Slashed(QualifierNames(m))

\* C10 witness: a major-topic heading with two qualifiers was emitted after
\* a heading that is not a major topic.
C10_Witness ==
  /\ Emitted
  /\ Len(epmcOut.value) = 1
  /\ epmcOut.value[1].subjects = << <<"D">>, <<"*", "D", "/", "r", "/", "q">> >>

\* The full-text URL list of a source result, empty when it has none.
SourceUrls(r) == IF r.urls.t = "array" THEN r.urls.a ELSE <<>>

\* An entry with a URL string: one that is there and is not empty.
HasUrl(entry) == Present(entry.url)

\* C24: the full-text URL of a publication is the URL string of the first
\* entry of the source result's full-text URL list, in the order of the
\* payload, that has a URL string (an empty string counts as none); it is
\* absent exactly when no entry has one.
C24_FirstFullTextUrl ==
  Emitted =>
    \A k \in 1..Len(epmcOut.value) :
      LET urls == SourceUrls(SourceOf(k))
          with == PositionsOf(urls, HasUrl)
      IN /\ with # {} => epmcOut.value[k].fullTextUrl = urls[Nth(with, 1)].url
         /\ with = {} <=> epmcOut.value[k].fullTextUrl = Undefined

\* C24 witness: a list whose first entry has no URL string and whose next
\* two entries have different ones has given the second entry's.
C24_Witness ==
  /\ Emitted
  /\ Len(epmcOut.value) = 1
  /\ Len(SourceUrls(SourceOf(1))) = 3
  /\ ~HasUrl(SourceUrls(SourceOf(1))[1])
  /\ SourceUrls(SourceOf(1))[2].url = Ch("v")
  /\ SourceUrls(SourceOf(1))[3].url = Ch("u")
  /\ epmcOut.value[1].fullTextUrl = Ch("v")

(***************************************************************************)
(* The NIH normalizer on every project of four families: a structured      *)
(* investigator list with a contact name of at most MaxPiLen letters; an   *)
(* award amount up to MaxAmount, null or absent; preferred terms of at     *)
(* most MaxTermsLen letters, null or absent; and the nullable fields, each *)
(* absent, null or filled in.  A project is parsed by its schema, and a    *)
(* project that has passed is converted.                                   *)
(***************************************************************************)
InitNih ==
  /\ \/ \E pis \in {Undefined} \cup {Arr(l) : l \in SeqsUpTo(NihInvestigators, MaxPis)} :
          \E n \in 0..MaxPiLen : \E name \in [1..n -> PiNameLetters] :
            project = NihProject(pis, Str(name))
     \/ \E amount \in AwardAmounts :
          project = [NihProject(Undefined, Undefined) EXCEPT !.award_amount = amount]
     \/ \E n \in 0..MaxTermsLen : \E terms \in [1..n -> TermLetters] :
          \E pref \in {Undefined, Null, Str(terms)} :
            project = [NihProject(Undefined, Undefined) EXCEPT !.pref_terms = pref]
     \/ \E amount \in {Null, Num(MaxAmount)}, org \in Organizations,
           pref \in {Null, Ch("a")}, covid \in CovidResponses,
           section \in StudySections, sub \in SubprojectIds :
          project = [NihProject(Undefined, Undefined) EXCEPT
                       !.award_amount = amount, !.organization = org,
                       !.pref_terms = pref, !.covid_response = covid,
                       !.full_study_section = section, !.subproject_id = sub]
  /\ validated = NotCalled
  /\ grantRecord = NotCalled
  /\ NoEpmc
  /\ NoProfile
  /\ NoCall

\* nih.ts 254, 276, 302: the parse of one project of the response
ParseProject ==
  /\ ~Called(validated)
  /\ validated' = IF NIHProjectSchema(project) THEN Return(project) ELSE Throw(ZodError)
  /\ UNCHANGED <<project, grantRecord, epmcVars, profileVars, serverVars>>

\* nih.ts 256, 278, 312: the conversion of a project that has been parsed
ConvertProject ==
  /\ Called(validated) /\ validated.ok
  /\ ~Called(grantRecord)
  /\ grantRecord' = Return(convertNIHProjectToGrantRecord(validated.value))
  /\ UNCHANGED <<project, validated, epmcVars, profileVars, serverVars>>

NextNih == ParseProject \/ ConvertProject

SpecNih == InitNih /\ [][NextNih]_vars

\* The position of the first comma of a string, 0 when it has none.
FirstComma(chars) ==
  IF \E i \in 1..Len(chars) : chars[i] = ","
  THEN CHOOSE i \in 1..Len(chars) : chars[i] = "," /\ \A j \in 1..(i - 1) : chars[j] # ","
  ELSE 0

\* C9: a structured investigator list is mapped entry by entry; otherwise a
\* contact name yields one investigator whose credit name is the whole
\* string, whose family name is the text before the first comma and whose
\* given name is everything after it (both trimmed, as in the spec's
\* example); without a comma the family name is the whole string and the
\* given name is empty.
C9_ContactNameSplit ==
  Called(grantRecord) =>
    LET pis == grantRecord.value.principal_investigators
        name == project.contact_pi_name
        comma == FirstComma(name.s)
    IN IF project.principal_investigators.t = "array"
       THEN /\ Len(pis) = Len(project.principal_investigators.a)
            /\ \A i \in 1..Len(pis) :
                 /\ pis[i].given_name = project.principal_investigators.a[i].first_name
                 /\ pis[i].family_name = project.principal_investigators.a[i].last_name
                 /\ pis[i].credit_name = project.principal_investigators.a[i].full_name
       ELSE Present(name) =>
              /\ Len(pis) = 1
              /\ pis[1].credit_name = name
              /\ comma = 0 => pis[1].family_name = name /\ pis[1].given_name = Str(<<>>)
              /\ comma > 0 =>
                   /\ pis[1].family_name = Str(Trim(SubSeq(name.s, 1, comma - 1)))
                   /\ pis[1].given_name = Str(Trim(SubSeq(name.s, comma + 1, Len(name.s))))

\* A value with null read as absent.
NullAsAbsent(v) == IF v.t = "null" THEN Undefined ELSE v

\* The project with every null taken out of the fields named as nullable:
\* award amount, department type, preferred terms, study-section codes,
\* covid-response flags and sub-project id.
WithoutNulls(p) ==
  LET org == p.organization
      section == p.full_study_section
  IN [p EXCEPT
        !.award_amount = NullAsAbsent(p.award_amount),
        !.organization =
          IF org.t = "object"
          THEN [org EXCEPT !.dept_type = NullAsAbsent(org.dept_type)]
          ELSE org,
        !.pref_terms = NullAsAbsent(p.pref_terms),
        !.covid_response = NullAsAbsent(p.covid_response),
        !.full_study_section =
          IF section.t = "object"
          THEN [section EXCEPT !.srgCode = NullAsAbsent(section.srgCode)]
          ELSE NullAsAbsent(section),
        !.subproject_id = NullAsAbsent(p.subproject_id)]

\* C21: a project that is valid once the nulls of the nullable fields (award
\* amount, department type, preferred terms, study-section codes,
\* covid-response flags, sub-project id) are read as absent is accepted by
\* the validation, and the grant built from it has no amount for a null
\* award amount and no keywords for null preferred terms.
C21_NullableFields ==
  /\ Called(validated) /\ NIHProjectSchema(WithoutNulls(project)) => validated.ok
  /\ Called(grantRecord) =>
       /\ project.award_amount.t = "null" => grantRecord.value.amount = Undefined
       /\ project.pref_terms.t = "null" => grantRecord.value.keywords = <<>>

\* C22: the amount of the grant is absent when the award amount of the
\* project is null or absent, and is the award amount for every number.
C22_Amount ==
  Called(grantRecord) =>
    IF project.award_amount.t \in {"null", "undefined"}
    THEN grantRecord.value.amount = Undefined
    ELSE grantRecord.value.amount = project.award_amount

\* The segment of chars that starts at position i: the letters up to the
\* next ";" or the end.
SegmentAt(chars, i) ==
  LET ends == {j \in i..(Len(chars) + 1) : j = Len(chars) + 1 \/ chars[j] = ";"}
      end == CHOOSE j \in ends : \A k \in ends : j <= k
  IN SubSeq(chars, i, end - 1)

\* A segment without the spaces around it.
Core(segment) ==
  LET letters == {i \in 1..Len(segment) : segment[i] # " "}
  IN IF letters = {} THEN <<>>
     ELSE SubSeq(segment,
                 CHOOSE i \in letters : \A j \in letters : i <= j,
                 CHOOSE i \in letters : \A j \in letters : j <= i)

\* The non-empty cores of the segments that start at position i or later, in
\* the order of the string.
RECURSIVE CoresFrom(_, _)
CoresFrom(chars, i) ==
  IF i > Len(chars) + 1 THEN <<>>
  ELSE IF (i = 1 \/ chars[i - 1] = ";") /\ Core(SegmentAt(chars, i)) # <<>>
       THEN <<Str(Core(SegmentAt(chars, i)))>> \o CoresFrom(chars, i + 1)
       ELSE CoresFrom(chars, i + 1)

\* C23: the keywords of the grant are the segments of the preferred terms
\* between the ";", each without the spaces around it, the empty ones
\* dropped and the others in their order; there are none when the preferred
\* terms are null or absent, and no keyword is empty, starts or ends with a
\* space, or holds a ";".
C23_Keywords ==
  Called(grantRecord) =>
    LET keywords == grantRecord.value.keywords
        terms == project.pref_terms
    IN /\ terms.t \in {"null", "undefined"} => keywords = <<>>
       /\ terms.t = "string" => keywords = CoresFrom(terms.s, 1)
       /\ \A i \in 1..Len(keywords) :
            LET k == keywords[i].s
            IN /\ k # <<>>
               /\ k[1] # " " /\ k[Len(k)] # " "
               /\ \A j \in 1..Len(k) : k[j] # ";"

\* Preferred terms with a space after the ";" have given two different
\* keywords.
C23_Witness ==
  /\ Called(grantRecord)
  /\ project.pref_terms.t = "string"
  /\ \E i \in 1..(Len(project.pref_terms.s) - 1) :
       project.pref_terms.s[i] = ";" /\ project.pref_terms.s[i + 1] = " "
  /\ Len(grantRecord.value.keywords) = 2
  /\ grantRecord.value.keywords[1] # grantRecord.value.keywords[2]

(***************************************************************************)
(* The ORCID profile builder on every email list of at most MaxEmails      *)
(* addresses.                                                              *)
(***************************************************************************)
InitProfile ==
  /\ \/ /\ \E n \in 0..MaxEmails : \E es \in [1..n -> OrcidEmails] :
             personData = PersonData(Arr(es))
        /\ worksData = GroupData(Undefined)
     \/ /\ personData = GoodPerson
        /\ \E n \in 0..MaxSummaries : \E ss \in [1..n -> Summaries] :
             worksData = GroupData(Arr(<<WorkGroup(Arr(ss), Arr(<<ExternalId(DOI, Ch("1"))>>))>>))
     \/ /\ personData = GoodPerson
        /\ \E n \in 0..MaxGroups : \E gs \in [1..n -> IdGroups] :
             worksData = GroupData(Arr(gs))
     \/ /\ personData = GoodPerson
        /\ \E d \in DateObjs :
             worksData =
               GroupData(Arr(<<WorkGroup(Arr(<<Summary(Ch("T"), d, Undefined, Undefined)>>),
                                         Undefined)>>))
  /\ customerProfile = NotCalled
  /\ NoEpmc
  /\ NoNih
  /\ NoCall

\* nih.ts 756-768: parsing the person and works payloads and building the
\* profile from them
BuildProfile ==
  /\ ~Called(customerProfile)
  /\ LET parsed == parseOrcidProfile(personData)
         works == parseOrcidWorks(worksData)
     IN customerProfile' =
          IF ~parsed.ok THEN parsed
          ELSE IF ~works.ok THEN works
          ELSE Return(createCustomerProfile(parsed.value, OrcidId, <<>>, <<>>, works.value))
  /\ UNCHANGED <<personData, worksData, epmcVars, nihVars, serverVars>>

NextProfile == BuildProfile

SpecProfile == InitProfile /\ [][NextProfile]_vars

PermutationsOf(n) == {p \in [1..n -> 1..n] : \A i, j \in 1..n : p[i] = p[j] => i = j}

IsPrimary(e) == e.primary = Bool(TRUE)
IsVerified(e) == e.verified = Bool(TRUE)

\* C8: the emitted email list is a permutation of the source emails in which
\* primary addresses precede the others, verified ones precede unverified
\* ones of the same primary status, and addresses equal on both flags keep
\* their source order.
C8_EmailOrder ==
  (Called(customerProfile) /\ customerProfile.ok) =>
    LET src == personData.emails.a
        out == customerProfile.value.researcherId.emails
    IN /\ Len(out) = Len(src)
       /\ \E p \in PermutationsOf(Len(src)) :
            /\ \A i \in 1..Len(out) :
                 /\ out[i].address = src[p[i]].email
                 /\ out[i].primary = Bool(IsPrimary(src[p[i]]))
            /\ \A i, j \in 1..Len(out) :
                 i < j =>
                   /\ IsPrimary(src[p[j]]) => IsPrimary(src[p[i]])
                   /\ (IsPrimary(src[p[i]]) = IsPrimary(src[p[j]]) /\ IsVerified(src[p[j]]))
                        => IsVerified(src[p[i]])
                   /\ (/\ IsPrimary(src[p[i]]) = IsPrimary(src[p[j]])
                       /\ IsVerified(src[p[i]]) = IsVerified(src[p[j]]))
                        => p[i] < p[j]

\* C8 witness: the spec's example, [unverified primary] moved in front of
\* [verified non-primary], [unverified non-primary] left last.
C8_Witness ==
  /\ Called(customerProfile)
  /\ customerProfile.ok
  /\ personData.emails.a =
       << [t |-> "object", email |-> Ch("a"), verified |-> Bool(TRUE), primary |-> Bool(FALSE)],
          [t |-> "object", email |-> Ch("b"), verified |-> Bool(FALSE), primary |-> Bool(TRUE)],
          [t |-> "object", email |-> Ch("a"), verified |-> Bool(FALSE), primary |-> Bool(FALSE)] >>
  /\ customerProfile.value.researcherId.emails =
       << [address |-> Ch("b"), primary |-> Bool(TRUE)],
          [address |-> Ch("a"), primary |-> Bool(FALSE)],
          [address |-> Ch("a"), primary |-> Bool(FALSE)] >>

(***************************************************************************)
(* Properties of the publications of the researcher profile.               *)
(***************************************************************************)
Built == Called(customerProfile) /\ customerProfile.ok

SourceGroups == IF worksData.groups.t = "array" THEN worksData.groups.a ELSE <<>>

GroupSummaries(group) == IF group.workSummary.t = "array" THEN group.workSummary.a ELSE <<>>

HasTitle(group) ==
  \E i \in 1..Len(GroupSummaries(group)) : Present(GroupSummaries(group)[i].title)

\* The work group the k-th emitted publication comes from.
GroupOf(k) == SourceGroups[Nth(PositionsOf(SourceGroups, HasTitle), k)]

Dated(summary) == summary.publicationDate.t = "object"

\* The first position of summaries that satisfies Has, 0 when there is none
FirstWith(summaries, Has(_)) ==
  IF \E i \in 1..Len(summaries) : Has(summaries[i])
  THEN CHOOSE i \in 1..Len(summaries) :
         Has(summaries[i]) /\ \A j \in 1..(i - 1) : ~Has(summaries[j])
  ELSE 0

\* The source labels of the first n summaries, joined with ", " from the
\* left
RECURSIVE JoinedUpTo(_, _)
JoinedUpTo(summaries, n) ==
  IF n = 0 THEN <<>>
  ELSE LET before == JoinedUpTo(summaries, n - 1)
       IN IF ~Present(summaries[n].source) THEN before
          ELSE IF before = <<>> THEN summaries[n].source.s
          ELSE before \o <<",", " ">> \o summaries[n].source.s

\* C18: an emitted publication takes its title from the first summary of
\* its work group that has a title, its date from the first summary that
\* has a date, its journal from the first summary that has a journal, and
\* its source is the ", "-joined list of the source labels of all summaries
\* that have one, in source order and with repetitions, absent when there
\* is none.
C18_FirstNonAbsent ==
  Built =>
    \A k \in 1..Len(customerProfile.value.publications) :
      LET pub == customerProfile.value.publications[k]
          ss == GroupSummaries(GroupOf(k))
          ti == FirstWith(ss, LAMBDA su : Present(su.title))
          da == FirstWith(ss, Dated)
          jo == FirstWith(ss, LAMBDA su : Present(su.journalTitle))
      IN /\ ti > 0 /\ pub.title = ss[ti].title
         /\ pub.publicationDate =
              IF da > 0 THEN parseDate(ss[da].publicationDate) ELSE Undefined
         /\ pub.journalName = IF jo > 0 THEN ss[jo].journalTitle ELSE Undefined
         /\ pub.source =
              IF JoinedUpTo(ss, Len(ss)) = <<>> THEN Undefined
              ELSE Str(JoinedUpTo(ss, Len(ss)))

\* C18 witness: the first summary has a journal and a source but no title
\* and no date; the title and the date come from the second summary, the
\* journal from the first, and the source names both.
C18_Witness ==
  /\ Built
  /\ Len(SourceGroups) = 1
  /\ GroupSummaries(SourceGroups[1]) =
       << Summary(Undefined, Undefined, Ch("J"), Ch("S")),
          Summary(Ch("U"), DateObj(Num(2021), Undefined, Undefined), Ch("K"), Ch("R")) >>
  /\ customerProfile.value.publications =
       << [title |-> Ch("U"),
           publicationDate |-> [t |-> "date", year |-> 2021, month |-> 1, day |-> 1],
           journalName |-> Ch("J"),
           source |-> Str(<<"S", ",", " ", "R">>),
           doi |-> Ch("1")] >>

\* The value of the external id of a work group whose type is "doi"
DoiOf(group) ==
  LET ids == IF group.externalIds.t = "array" THEN group.externalIds.a ELSE <<>>
      at == FirstWith(ids, LAMBDA id : id.type = DOI)
  IN IF at > 0 THEN ids[at].value ELSE Undefined

\* C19: the publication list has exactly one entry per work group of the
\* works response, in source order, and the DOI of each entry is the value
\* of its group's external id of type "doi".
C19_OnePublicationPerGroup ==
  Built =>
    /\ Len(customerProfile.value.publications) = Len(SourceGroups)
    /\ \A k \in 1..Len(SourceGroups) :
         customerProfile.value.publications[k].doi = DoiOf(SourceGroups[k])

\* The calendar date of a year/month/day object whose year is given
CalendarDate(dateObj) ==
  [t |-> "date",
   year |-> dateObj.year.n,
   month |-> IF dateObj.month.t = "number" THEN dateObj.month.n ELSE 1,
   day |-> IF dateObj.day.t = "number" THEN dateObj.day.n ELSE 1]

\* C20: the date of an emitted publication is no date exactly when the
\* year/month/day object, or its year, is absent; otherwise it is the
\* calendar date with that year, with the given month or 1, and with the
\* given day or 1.
C20_ParseDate ==
  Built =>
    \A k \in 1..Len(customerProfile.value.publications) :
      LET ss == GroupSummaries(GroupOf(k))
          da == FirstWith(ss, Dated)
      IN customerProfile.value.publications[k].publicationDate =
           IF da = 0 \/ ss[da].publicationDate.year.t # "number" THEN Undefined
           ELSE CalendarDate(ss[da].publicationDate)

(***************************************************************************)
(* The server: a tool call, the requests it issues and what they end with. *)
(***************************************************************************)
Init ==
  /\ NoCall
  /\ NoEpmc
  /\ NoNih
  /\ NoProfile

EpmcTools == {"search_epmc_by_orcid", "get_publication_details"}

NihTools ==
  {"search_nih_grants_by_pi_name", "search_nih_grants_by_organization",
   "get_nih_grant_by_number"}

\* One request issued: in flight, with the timer the adapter arms for it.
Issued(timer) ==
  [i \in 1..4 |-> IF i = 1 THEN [IdleFetch EXCEPT !.st = "inflight", !.timer = timer]
                  ELSE IdleFetch]

\* part_000 42-44 and epmc.ts 205-211: the handler calls
\* getEpmcPublicationsByOrcid, whose request carries AbortSignal.timeout.
Execute_search_epmc_by_orcid ==
  /\ tool = "none"
  /\ tool' = "search_epmc_by_orcid"
  /\ args' = [NoArgs EXCEPT !.orcid_id = OrcidId]
  /\ fetches' = Issued("signal")
  /\ UNCHANGED <<joinOut, opOut, toolOut, epmcVars, nihVars, profileVars>>

\* part_000 59-61
Execute_get_publication_details ==
  /\ tool = "none"
  /\ tool' = "get_publication_details"
  /\ \E index \in PublicationIndexes :
       args' = [NoArgs EXCEPT !.orcid_id = OrcidId, !.publication_index = index]
  /\ fetches' = Issued("signal")
  /\ UNCHANGED <<joinOut, opOut, toolOut, epmcVars, nihVars, profileVars>>

\* part_000 80-82 and nih.ts 207-216: fetchNIHData arms its timer and issues
\* its request.
Execute_search_nih_grants_by_pi_name ==
  /\ tool = "none"
  /\ tool' = "search_nih_grants_by_pi_name"
  /\ args' = NoArgs
  /\ fetches' = Issued("armed")
  /\ UNCHANGED <<joinOut, opOut, toolOut, epmcVars, nihVars, profileVars>>

\* part_000 97-99
Execute_search_nih_grants_by_organization ==
  /\ tool = "none"
  /\ tool' = "search_nih_grants_by_organization"
  /\ args' = NoArgs
  /\ fetches' = Issued("armed")
  /\ UNCHANGED <<joinOut, opOut, toolOut, epmcVars, nihVars, profileVars>>

\* part_000 113-118 and nih.ts 291-303: a blank project number returns null
\* before any request, and the handler answers that the grant is not found.
Execute_get_nih_grant_by_number ==
  /\ tool = "none"
  /\ tool' = "get_nih_grant_by_number"
  /\ \E number \in ProjectNumbers :
       /\ args' = [NoArgs EXCEPT !.project_number = number]
       /\ IF BlankProjectNumber(number)
          THEN /\ fetches' = fetches
               /\ opOut' = Return(Null)
               /\ toolOut' = Handle_get_nih_grant_by_number(Return(Null))
          ELSE /\ fetches' = Issued("armed")
               /\ UNCHANGED <<opOut, toolOut>>
  /\ UNCHANGED <<joinOut, epmcVars, nihVars, profileVars>>

\* The handler whose getOrcidProfile awaits person before it asks for the
\* other three
Execute_get_orcid_profile_OneByOne ==
  /\ tool = "none"
  /\ tool' = "get_orcid_profile"
  /\ args' = [NoArgs EXCEPT !.orcid_id = OrcidId]
  /\ fetches' = Issued("armed")
  /\ UNCHANGED <<joinOut, opOut, toolOut, epmcVars, nihVars, profileVars>>

\* part_000 133-135 and nih.ts 742-747, 476-483: the handler calls
\* getOrcidProfile, which calls fetchOrcidData four times before it awaits;
\* each call arms its timer and issues its request.
Execute_get_orcid_profile ==
  /\ tool = "none"
  /\ tool' = "get_orcid_profile"
  /\ args' = [NoArgs EXCEPT !.orcid_id = OrcidId]
  /\ fetches' = [i \in 1..4 |-> [IdleFetch EXCEPT !.st = "inflight", !.timer = "armed"]]
  /\ UNCHANGED <<joinOut, opOut, toolOut, epmcVars, nihVars, profileVars>>

\* A handler that issues its request without looking at its credential
ExecuteWithKey_NoCheck(name, variable) ==
  /\ tool = "none"
  /\ tool' = name
  /\ \E key \in ApiKeys : args' = [NoArgs EXCEPT !.apiKey = key]
  /\ fetches' = Issued("unset")
  /\ UNCHANGED <<joinOut, opOut, toolOut, epmcVars, nihVars, profileVars>>

\* A handler that reads its credential first: without it the text is
\* returned at once, with it the service is built and its request is issued
\* without any timer.
ExecuteWithKey(name, variable) ==
  /\ tool = "none"
  /\ tool' = name
  /\ \E key \in ApiKeys :
       /\ args' = [NoArgs EXCEPT !.apiKey = key]
       /\ IF ~Truthy(key)
          THEN /\ fetches' = fetches
               /\ toolOut' = MissingKeyText(variable)
          ELSE /\ fetches' = Issued("unset")
               /\ toolOut' = toolOut
  /\ UNCHANGED <<joinOut, opOut, epmcVars, nihVars, profileVars>>

\* part_000 150-157 and maps.ts 32-46
Execute_get_coordinates == ExecuteWithKey("get_coordinates", "GOOGLE_MAPS_API_KEY")

\* part_000 172-179 and maps.ts 32-37, 79-81
Execute_calculate_distance == ExecuteWithKey("calculate_distance", "GOOGLE_MAPS_API_KEY")

\* part_000 197-204 and screening.ts 71-108
Execute_search_screening_list ==
  ExecuteWithKey("search_screening_list", "CONSOLIDATED_SCREENING_LIST_API_KEY")

\* What the function that issued the request at position i ends with, once
\* the request has ended with ev.
FetchResult(i, ev) ==
  CASE tool = "get_orcid_profile" -> fetchOrcidData(args.orcid_id, Endpoints[i], ev)
    [] tool \in EpmcTools -> fetchEpmcData(ev)
    [] tool \in NihTools -> fetchNIHData(ev)
    [] tool = "get_coordinates" -> getCoordinates(Ch("A"), ev)
    [] tool = "calculate_distance" -> calculateDistance(ev)
    [] tool = "search_screening_list" -> search(ev)

\* What the adapter operation of the call ends with, given its requests and
\* its Promise.all.
OperationResult(after, join) ==
  CASE tool = "get_orcid_profile" -> getOrcidProfile(args.orcid_id, join)
    [] tool \in EpmcTools -> getEpmcPublicationsByOrcid(after[1].out)
    [] tool = "search_nih_grants_by_pi_name" -> getNIHGrantsByPIName(after[1].out)
    [] tool = "search_nih_grants_by_organization" -> getNIHGrantsByOrganization(after[1].out)
    [] tool = "get_nih_grant_by_number" -> getNIHGrantByNumber(after[1].out)
    [] OTHER -> after[1].out

\* What the handler of the call returns, given what its operation ended with.
HandlerResult(op) ==
  CASE tool = "get_publication_details" ->
         Handle_get_publication_details(args.publication_index, op)
    [] tool = "get_nih_grant_by_number" -> Handle_get_nih_grant_by_number(op)
    [] OTHER -> HandleResult(op)

\* The timer of a request after the request has ended when the catch block
\* does not clear it.
TimerAfter_NoClear(timer, ev) ==
  IF ev.type \in {"abort", "timeout"} THEN "fired"
  ELSE timer

\* The timer of a request after the request has ended: fetchOrcidData and
\* fetchNIHData clear theirs on both paths; the signal's timer is the
\* platform's.
TimerAfter(timer, ev) ==
  IF ev.type \in {"abort", "timeout"} THEN "fired"
  ELSE IF timer = "armed" THEN "cleared"
  ELSE timer

\* The continuation of a function that issues its request again when the
\* request has failed
Settle_Retry(i, ev) ==
  IF FetchResult(i, ev).ok
  THEN /\ fetches' = [fetches EXCEPT ![i] = [st |-> "fulfilled", timer |-> "cleared",
                                             event |-> ev, out |-> FetchResult(i, ev)]]
       /\ UNCHANGED <<tool, args, joinOut, opOut, toolOut, epmcVars, nihVars, profileVars>>
  ELSE /\ fetches' = [fetches EXCEPT ![i] = [st |-> "inflight", timer |-> "armed",
                                             event |-> ev, out |-> NotCalled]]
       /\ UNCHANGED <<tool, args, joinOut, opOut, toolOut, epmcVars, nihVars, profileVars>>

\* The request at position i ends with ev: the rest of the function that
\* issued it runs, then whatever of Promise.all, the adapter operation and
\* the handler this settlement resumes.
Settle(i, ev) ==
  LET out == FetchResult(i, ev)
      after == [fetches EXCEPT ![i] =
                  [st |-> IF out.ok THEN "fulfilled" ELSE "rejected",
                   timer |-> TimerAfter(fetches[i].timer, ev),
                   event |-> ev,
                   out |-> out]]
      join == IF tool = "get_orcid_profile"
              THEN PromiseAll(joinOut, [j \in 1..4 |-> after[j].out], i)
              ELSE joinOut
      op == IF Called(opOut) THEN opOut ELSE OperationResult(after, join)
  IN /\ fetches' = after
     /\ joinOut' = join
     /\ opOut' = op
     /\ toolOut' = IF Called(toolOut) THEN toolOut ELSE HandlerResult(op)
     /\ UNCHANGED <<tool, args, epmcVars, nihVars, profileVars>>

\* The response to a request in flight arrives: await fetch resolves with
\* its status and headers, the body still to be read. fetchOrcidData and
\* fetchNIHData clear their timer at this point (nih.ts 218 and 484).
HeadersArrive ==
  \E i \in 1..4 :
    /\ fetches[i].st = "inflight"
    /\ fetches' = [fetches EXCEPT ![i].st = "reading",
                                  ![i].timer = IF @ = "armed" THEN "cleared" ELSE @]
    /\ UNCHANGED <<tool, args, joinOut, opOut, toolOut, epmcVars, nihVars, profileVars>>

\* A request ends: fetch rejects while the request is in flight, or, once
\* the response has arrived, its status is looked at and its body is read.
Respond ==
  \E i \in 1..4 :
    \/ /\ fetches[i].st = "inflight"
       /\ Settle(i, NetworkError)
    \/ /\ fetches[i].st = "reading"
       /\ \E ev \in Events(tool, i) : Settle(i, ev)

\* The timer a function armed for its request fires while the request is in
\* flight: controller.abort() rejects the pending fetch.
TimerFires ==
  \E i \in 1..4 :
    /\ fetches[i].st = "inflight"
    /\ fetches[i].timer = "armed"
    /\ Settle(i, Aborted)

\* The timer of AbortSignal.timeout fires while the request is in flight or
\* its body is being read.
SignalTimesOut ==
  \E i \in 1..4 :
    /\ fetches[i].st \in {"inflight", "reading"}
    /\ fetches[i].timer = "signal"
    /\ Settle(i, TimedOut)

Next ==
  \/ Execute_search_epmc_by_orcid
  \/ Execute_get_publication_details
  \/ Execute_search_nih_grants_by_pi_name
  \/ Execute_search_nih_grants_by_organization
  \/ Execute_get_nih_grant_by_number
  \/ Execute_get_orcid_profile
  \/ Execute_get_coordinates
  \/ Execute_calculate_distance
  \/ Execute_search_screening_list
  \/ HeadersArrive
  \/ Respond
  \/ TimerFires
  \/ SignalTimesOut

Spec == Init /\ [][Next]_vars

(***************************************************************************)
(* Properties of the researcher-profile aggregate.                         *)
(***************************************************************************)
OrcidCall == tool = "get_orcid_profile"

\* C1: getOrcidProfile is all-or-nothing: as soon as one of the four
\* sub-fetches has failed the call has failed and the handler has returned
\* an error text; a profile is returned only when all four succeeded.
C1_AllOrNothing ==
  OrcidCall =>
    /\ (\E i \in 1..4 : fetches[i].st = "rejected") =>
         /\ Failed(opOut)
         /\ Succeeded(toolOut) /\ toolOut.value.t = "string" /\ toolOut.value.isError
    /\ Succeeded(opOut) => \A i \in 1..4 : fetches[i].st = "fulfilled"
    /\ (Succeeded(toolOut) /\ toolOut.value.t = "string" /\ ~toolOut.value.isError) =>
         /\ Succeeded(opOut)
         /\ toolOut.value.json = opOut.value

\* C1 witness: person and works have succeeded, educations has failed, the
\* call has failed while employments is still in flight.
C1_Witness ==
  /\ OrcidCall
  /\ fetches[1].st = "fulfilled"
  /\ fetches[2].st = "fulfilled"
  /\ fetches[3].st = "rejected"
  /\ fetches[4].st = "inflight"
  /\ Failed(opOut)

\* C4: a 404 answer to a sub-fetch, when no sub-fetch failed otherwise,
\* makes getOrcidProfile fail with an OrcidNotFoundError; an
\* OrcidValidationError arises only when all four responses were received,
\* and any other bad status alone gives an OrcidAPIError.
C4_NotFoundDistinct ==
  OrcidCall =>
    LET rejected == {i \in 1..4 : fetches[i].st = "rejected"}
    IN /\ (rejected # {} /\ \A i \in rejected : fetches[i].event = HttpResponse(404, Undefined))
            => Failed(opOut) /\ opOut.error.kind = "OrcidNotFoundError"
       /\ (rejected # {} /\ \A i \in rejected : fetches[i].event = HttpResponse(500, Undefined))
            => Failed(opOut) /\ opOut.error.kind = "OrcidAPIError"
       /\ (Failed(opOut) /\ opOut.error.kind = "OrcidValidationError")
            => /\ rejected = {}
               /\ \A i \in 1..4 : fetches[i].event.type = "response" /\ fetches[i].event.status = 200
               /\ opOut.error.details.rawData = [i \in 1..4 |-> fetches[i].event.body]

\* C4 witness: works was answered with 404 while the others succeeded or are
\* in flight, and the call failed with not-found.
C4_Witness ==
  /\ OrcidCall
  /\ fetches[2].event = HttpResponse(404, Undefined)
  /\ fetches[1].st = "fulfilled"
  /\ fetches[3].st = "inflight"
  /\ Failed(opOut)
  /\ opOut.error.kind = "OrcidNotFoundError"
  /\ toolOut.value.message =
       "Error: The requested researcher profile could not be found. Please verify the ORCID ID is correct."

(***************************************************************************)
(* Properties of the tool handlers and of the adapters' error layers.      *)
(***************************************************************************)
Pending(i) == fetches[i].st \in {"inflight", "reading"}

Settled == tool # "none" /\ \A i \in 1..4 : ~Pending(i)

\* C2: every tool call, whatever its input and whatever its requests end
\* with, completes by returning a text: once no request is in flight the
\* handler has returned, and what it returned is a string, never a thrown
\* exception and never a value that is no text.
C2_AlwaysText ==
  /\ Settled => Called(toolOut)
  /\ Called(toolOut) => toolOut.ok /\ toolOut.value.t = "string"

\* What the try block of the function that issued request i threw
ThrownInFetch(i) ==
  CASE tool = "get_orcid_profile" ->
         fetchOrcidDataTry(args.orcid_id, Endpoints[i], fetches[i].event).error
    [] tool \in EpmcTools -> fetchEpmcDataTry(fetches[i].event).error
    [] tool \in NihTools -> fetchNIHDataTry(fetches[i].event).error
    [] tool = "get_coordinates" -> getCoordinatesTry(Ch("A"), fetches[i].event).error
    [] tool = "calculate_distance" -> calculateDistanceTry(fetches[i].event).error
    [] tool = "search_screening_list" -> searchTry(fetches[i].event).error

\* The error kinds an adapter classifies failures into, and the generic one
\* among them
TypedKinds ==
  CASE tool = "get_orcid_profile" -> OrcidErrorKinds
    [] tool \in EpmcTools -> {"EpmcAPIError", "EpmcValidationError"}
    [] tool \in {"get_coordinates", "calculate_distance"} -> {"GoogleMapsError"}
    [] tool = "search_screening_list" -> {"ScreeningListError"}
    [] OTHER -> {}

GenericKind ==
  CASE tool = "get_orcid_profile" -> "OrcidAPIError"
    [] tool \in EpmcTools -> "EpmcAPIError"
    [] tool \in {"get_coordinates", "calculate_distance"} -> "GoogleMapsError"
    [] tool = "search_screening_list" -> "ScreeningListError"
    [] OTHER -> "Error"

\* The failure the layers inside the outer get* function ended with: the
\* rejection Promise.all or the fetch passed on, or what parsing threw.
InnerFailure ==
  CASE tool = "get_orcid_profile" ->
         IF joinOut.ok THEN ProfileFromPayloads(args.orcid_id, joinOut.value) ELSE joinOut
    [] tool \in EpmcTools ->
         IF fetches[1].out.ok THEN parsePublications(fetches[1].out.value)
         ELSE fetches[1].out
    [] OTHER -> fetches[1].out

\* C3: an error that an inner layer has classified reaches the caller of the
\* adapter operation unchanged. At the fetch layer an error of a typed kind
\* thrown in the try block is what the function rejects with, and any other
\* exception is wrapped into the adapter's generic error; Promise.all rejects
\* with the rejection of one of the sub-fetches; the outer function fails
\* with exactly the typed error the layers inside it ended with.
C3_TypedErrorsPassThrough ==
  /\ \A i \in 1..4 :
       fetches[i].st = "rejected" =>
         IF ThrownInFetch(i).kind \in TypedKinds
         THEN fetches[i].out.error = ThrownInFetch(i)
         ELSE fetches[i].out.error.kind = GenericKind
  /\ (OrcidCall /\ Failed(joinOut)) =>
       \E i \in 1..4 : fetches[i].st = "rejected" /\ joinOut.error = fetches[i].out.error
  /\ (Called(opOut) /\ TypedKinds # {} /\ fetches[1].st # "idle") =>
       LET inner == InnerFailure
       IN /\ opOut.ok <=> inner.ok
          /\ (~inner.ok /\ inner.error.kind \in TypedKinds) => opOut.error = inner.error
          /\ (~inner.ok /\ inner.error.kind \notin TypedKinds) =>
               opOut.error.kind = GenericKind

\* C3 witness: educations was answered with status 500 while person and
\* works succeeded; the OrcidAPIError classified in fetchOrcidData, with the
\* status in its details, is the error getOrcidProfile failed with.
C3_Witness ==
  /\ OrcidCall
  /\ fetches[1].st = "fulfilled"
  /\ fetches[2].st = "fulfilled"
  /\ fetches[3].event = HttpResponse(500, Undefined)
  /\ Failed(opOut)
  /\ opOut.error =
       OrcidAPIError("Failed to fetch educations data",
                     [orcidId |-> OrcidId, endpoint |-> "educations", status |-> 500])

\* The response to the only request of the call was received with a good
\* status and a body that is JSON.
Received ==
  /\ fetches[1].event.type = "response"
  /\ fetches[1].event.status = 200
  /\ fetches[1].event.body # Unparseable

IsValidationError(error) ==
  error.kind \in {"EpmcValidationError", "NIHValidationError", "OrcidValidationError"}

\* C5: a response that was received but has not the expected shape makes the
\* operation fail with a validation error that carries the raw payload: for
\* Europe PMC a body EpmcResponseSchema rejects, for the NIH search a body
\* NIHSearchResponseSchema rejects, for ORCID payloads the parsing functions
\* cannot walk.
C5_MalformedIsValidationError ==
  /\ (tool \in EpmcTools /\ Called(opOut) /\ Received
        /\ ~EpmcResponseSchema(fetches[1].event.body)) =>
       /\ Failed(opOut)
       /\ opOut.error.kind = "EpmcValidationError"
       /\ opOut.error.rawData = fetches[1].event.body
  /\ (tool \in NihTools /\ Called(opOut) /\ fetches[1].st # "idle" /\ Received
        /\ ~NIHSearchResponseSchema(fetches[1].event.body)) =>
       /\ Failed(opOut)
       /\ IsValidationError(opOut.error)
  /\ (OrcidCall /\ Succeeded(joinOut) /\ Truthy(joinOut.value[1])
        /\ \/ ~parseOrcidProfile(joinOut.value[1]).ok
           \/ ~parseOrcidWorks(joinOut.value[2]).ok
           \/ ~parseAffiliations(joinOut.value[3]).ok
           \/ ~parseAffiliations(joinOut.value[4]).ok) =>
       /\ Failed(opOut)
       /\ opOut.error.kind = "OrcidValidationError"
       /\ opOut.error.details.rawData = joinOut.value

(***************************************************************************)
(* The server when timers that stay armed do fire; nothing is assumed      *)
(* about the network, whose answers may never come.                        *)
(***************************************************************************)
FairSpec == Spec /\ WF_vars(TimerFires) /\ WF_vars(SignalTimesOut)

\* C11: every request of every adapter is guarded by a timeout: a request
\* that is pending, in flight or with its body still being read, does not
\* stay pending forever even when the network never answers.
C11_EveryCallTimesOut ==
  \A i \in 1..4 : Pending(i) ~> ~Pending(i)

TimeoutEvents == {Aborted, TimedOut}

\* C12: a request that ended because its timeout fired makes its function,
\* and the operation when this is the failure it surfaces, fail with the
\* adapter's generic error kind, the kind a network failure of the same
\* request gives; no AbortError or TimeoutError reaches the caller.
C12_TimeoutIsTransportError ==
  \A i \in 1..4 :
    fetches[i].event \in TimeoutEvents =>
      /\ Failed(fetches[i].out)
      /\ fetches[i].out.error.kind = GenericKind
      /\ fetches[i].out.error.kind = FetchResult(i, NetworkError).error.kind
      /\ (tool # "get_orcid_profile" \/ joinOut = fetches[i].out) =>
           /\ Failed(opOut)
           /\ opOut.error.kind = GenericKind
           /\ Succeeded(toolOut) /\ toolOut.value.t = "string" /\ toolOut.value.isError

\* C12 witness: the timeout of the Europe PMC request fired and the search
\* failed with an EpmcAPIError.
C12_Witness ==
  /\ tool = "search_epmc_by_orcid"
  /\ fetches[1].event = TimedOut
  /\ Failed(opOut)
  /\ opOut.error.kind = "EpmcAPIError"

\* C13: in getOrcidProfile the four requests are all issued before the
\* response of any of them is awaited, so none is still to be issued once
\* the call has started; Promise.all resolves, and the profile is built and
\* returned, only when all four have completed, and while one of them is
\* pending with no failure the call has not ended.
C13_JoinBarrier ==
  OrcidCall =>
    /\ \A i \in 1..4 : fetches[i].st # "idle"
    /\ Succeeded(joinOut) => \A i \in 1..4 : fetches[i].st = "fulfilled"
    /\ Succeeded(opOut) =>
         /\ \A i \in 1..4 : fetches[i].st = "fulfilled"
         /\ opOut = ProfileFromPayloads(args.orcid_id, [i \in 1..4 |-> fetches[i].out.value])
    /\ ((\E i \in 1..4 : Pending(i)) /\ \A i \in 1..4 : fetches[i].st # "rejected") =>
         ~Called(joinOut) /\ ~Called(opOut) /\ ~Called(toolOut)

\* C13 witness: three responses have been read, the body of the fourth is
\* still being read, and the call has not ended.
C13_Witness ==
  /\ OrcidCall
  /\ fetches[1].st = "fulfilled"
  /\ fetches[2].st = "fulfilled"
  /\ fetches[4].st = "fulfilled"
  /\ fetches[3].st = "reading"
  /\ ~Called(opOut)

\* C14: no operation retries. A request is issued only when the tool call
\* starts, so each position sees at most one request; a request that has
\* ended is never in flight again, and what it ended with stays as it is.
C14_NoRetry ==
  [][\A i \in 1..4 :
       /\ (fetches[i].st # "inflight" /\ fetches'[i].st = "inflight") =>
            tool = "none" /\ fetches[i].st = "idle"
       /\ fetches[i].st \in {"fulfilled", "rejected"} => fetches'[i] = fetches[i]
       /\ (fetches'[i].st = "rejected" /\ tool' # "get_orcid_profile") =>
            Failed(opOut') /\ Called(toolOut')]_vars

\* C14 witness: the only request of an NIH search has failed on the
\* network, and the failure has reached the caller.
C14_Witness ==
  /\ tool = "search_nih_grants_by_pi_name"
  /\ fetches[1].st = "rejected"
  /\ fetches[1].event = NetworkError
  /\ \A i \in 2..4 : fetches[i].st = "idle"
  /\ Failed(opOut)
  /\ Called(toolOut)

KeyTools == {"get_coordinates", "calculate_distance", "search_screening_list"}

KeyVariable ==
  IF tool = "search_screening_list" THEN "CONSOLIDATED_SCREENING_LIST_API_KEY"
  ELSE "GOOGLE_MAPS_API_KEY"

\* C15: when the credential of Google Maps or of the screening list is
\* absent or empty, the call has ended with the text that says the
\* credential is not set, and no request is ever issued by it.
C15_NoKeyNoRequest ==
  (tool \in KeyTools /\ ~Truthy(args.apiKey)) =>
    /\ \A i \in 1..4 : fetches[i] = IdleFetch
    /\ ~Called(opOut)
    /\ toolOut = MissingKeyText(KeyVariable)

\* C15 witness: the screening list was searched with an empty credential.
C15_Witness ==
  /\ tool = "search_screening_list"
  /\ args.apiKey = Str(<<>>)
  /\ toolOut.value.message =
       "Error: CONSOLIDATED_SCREENING_LIST_API_KEY environment variable is not set."

OutOfRangeText(index, length) ==
  ErrorText("Publication index " \o ToString(index) \o " is out of range. Found "
            \o ToString(length) \o " publications.")

\* C16: once the publication list has been fetched, get_publication_details
\* returns the serialized record at the requested index when the index is a
\* position of the list (0 <= index < length), and the out-of-range error
\* text for every other index.
C16_IndexInRangeOrError ==
  (tool = "get_publication_details" /\ Succeeded(opOut)) =>
    LET index == args.publication_index
        publications == opOut.value.a
    IN IF 0 <= index /\ index < Len(publications)
       THEN toolOut = Return(Stringify(publications[index + 1]))
       ELSE toolOut = Return(OutOfRangeText(index, Len(publications)))

DistanceCall == tool = "calculate_distance" /\ Succeeded(opOut)

\* C17: in the distance result the two addresses, the distance text, the
\* duration text and the duration in seconds are the values of the
\* response, unchanged, and distance_km is the response's distance in
\* meters divided by 1000: a thousand times it is the number of meters, and
\* 12345 meters give 12.345 kilometres.
C17_DistanceResult ==
  DistanceCall =>
    LET data == fetches[1].event.body
        element == data.rows.a[1].elements.a[1]
        result == opOut.value
    IN /\ result.origin_address = data.origin_addresses.a[1]
       /\ result.destination_address = data.destination_addresses.a[1]
       /\ result.distance_text = element.distance.text
       /\ result.duration = element.duration.text
       /\ result.duration_seconds = element.duration.value
       /\ result.distance_km.whole * 1000 + result.distance_km.thousandths
            = element.distance.value.n
       /\ result.distance_km.thousandths \in 0..999
       /\ element.distance.value.n = 12345 =>
            result.distance_km.whole = 12 /\ result.distance_km.thousandths = 345
       /\ toolOut = Return(Stringify(result))

\* C17 witness: a distance of 12345 meters was answered and returned.
C17_Witness ==
  /\ DistanceCall
  /\ fetches[1].event.body.rows.a[1].elements.a[1].distance.value = Num(12345)
  /\ opOut.value.distance_km = [t |-> "number", whole |-> 12, thousandths |-> 345]

\* The sub-fetches of getOrcidProfile that have failed.
FailedFetches == {i \in 1..4 : Failed(fetches[i].out)}

\* C25: in getOrcidProfile the error that reaches the caller is the error of
\* the sub-fetch that fails first in time, whatever its position among the
\* four: the step in which the first sub-fetch fails rejects the call with
\* that sub-fetch's error and leaves the other sub-fetches as they are, not
\* cancelled; once the call has failed, later failures and results change
\* nothing of what the caller got, and a sub-fetch still in flight keeps
\* its own timer.
C25_FirstFailureInTime ==
  [][tool = "get_orcid_profile" =>
       /\ \A i \in 1..4 :
            (FailedFetches = {} /\ Failed(fetches'[i].out)) =>
              /\ joinOut' = fetches'[i].out
              /\ opOut' = fetches'[i].out
              /\ toolOut' = HandleResult(opOut')
              /\ \A j \in (1..4) \ {i} : fetches'[j] = fetches[j]
       /\ Failed(opOut) =>
            /\ joinOut' = joinOut /\ opOut' = opOut /\ toolOut' = toolOut
            /\ \A j \in 1..4 :
                 fetches[j].st = "inflight" => fetches[j].timer = "armed"]_vars

\* C25 witness: the third sub-fetch failed first, with a 404; the first
\* failed later on the network and the second resolved; the caller has the
\* third's error, and the fourth is still in flight with its timer armed.
C25_Witness ==
  /\ tool = "get_orcid_profile"
  /\ Failed(fetches[3].out)
  /\ fetches[3].out.error.kind = "OrcidNotFoundError"
  /\ Failed(fetches[1].out)
  /\ fetches[1].out.error.kind = "OrcidAPIError"
  /\ fetches[2].st = "fulfilled"
  /\ fetches[4].st = "inflight" /\ fetches[4].timer = "armed"
  /\ opOut = fetches[3].out

\* The calls whose requests are issued by fetchOrcidData or fetchNIHData.
OwnTimerCall == tool \in NihTools \cup {"get_orcid_profile"}

\* C26: in fetchOrcidData and fetchNIHData no timer is pending once the call
\* has settled: it has been cleared or it has fired. The timer fires at
\* most once, only while it is armed and the request is in flight, and the
\* abort is what the request then ends with; a timer that has been cleared
\* or has fired is never armed again.
C26_TimerCleared ==
  [][OwnTimerCall' =>
       \A i \in 1..4 :
         /\ fetches'[i].st \in {"fulfilled", "rejected"} =>
              fetches'[i].timer \in {"cleared", "fired"}
         /\ (fetches[i].timer # "fired" /\ fetches'[i].timer = "fired") =>
              /\ fetches[i].st = "inflight" /\ fetches[i].timer = "armed"
              /\ fetches'[i].st = "rejected" /\ fetches'[i].event = Aborted
         /\ fetches[i].timer \in {"cleared", "fired"} =>
              fetches'[i].timer = fetches[i].timer]_vars

\* C26 witness: of the requests of one getOrcidProfile the first was
\* aborted by its timer, the second failed on the network, the third was
\* answered with a bad status and the fourth with a body; no timer is left.
C26_Witness ==
  /\ tool = "get_orcid_profile"
  /\ fetches[1].st = "rejected" /\ fetches[1].event = Aborted
  /\ fetches[1].timer = "fired"
  /\ fetches[2].st = "rejected" /\ fetches[2].event = NetworkError
  /\ fetches[2].timer = "cleared"
  /\ fetches[3].st = "rejected" /\ fetches[3].event = HttpResponse(500, Undefined)
  /\ fetches[3].timer = "cleared"
  /\ fetches[4].st = "fulfilled" /\ fetches[4].timer = "cleared"

\* The text the handler answers with for an absent grant.
NotFoundText == Return(ErrorText("Grant not found."))

\* A project number without any letter other than white space.
OnlySpaces(number) == \A i \in 1..Len(number.s) : number.s[i] = " "

\* The projects of the answer to the request at position 1, none when the
\* body has no project list.
AnsweredProjects ==
  LET body == fetches[1].event.body
  IN IF body.t = "object" /\ body.results.t = "array" THEN body.results.a ELSE <<>>

\* C27: for a project number that is empty or only white space
\* getNIHGrantByNumber returns null and no request is issued; for any other
\* number exactly one request is issued, and when the operation returns it
\* returns the grant built from the first project of the answer, or null
\* when the answer has no project; the handler answers null with the
\* not-found error text and a grant with its JSON text.
C27_GrantByNumber ==
  tool = "get_nih_grant_by_number" =>
    /\ OnlySpaces(args.project_number) =>
         /\ \A i \in 1..4 : fetches[i].st = "idle"
         /\ opOut = Return(Null)
         /\ toolOut = NotFoundText
    /\ ~OnlySpaces(args.project_number) =>
         /\ fetches[1].st # "idle"
         /\ \A i \in 2..4 : fetches[i].st = "idle"
         /\ Succeeded(opOut) =>
              /\ fetches[1].st = "fulfilled"
              /\ AnsweredProjects = <<>> =>
                   opOut.value = Null /\ toolOut = NotFoundText
              /\ AnsweredProjects # <<>> =>
                   /\ opOut.value = convertNIHProjectToGrantRecord(AnsweredProjects[1])
                   /\ opOut.value.id = AnsweredProjects[1].project_num
                   /\ toolOut = Return(Stringify(opOut.value))

\* C27 witness: the call with a project number of two spaces has ended with
\* the not-found text and without a request.
C27_Witness ==
  /\ tool = "get_nih_grant_by_number"
  /\ args.project_number = Str(<<" ", " ">>)
  /\ \A i \in 1..4 : fetches[i].st = "idle"
  /\ opOut = Return(Null)
  /\ toolOut = NotFoundText

====
